---- MODULE Spec2Model ----
(***************************************************************************)
(* Text segmentation, line packing and shrink-to-fit font search of        *)
(* src/utils/brat-generator.js (parseTextToSegments,                       *)
(* rebuildLinesFromSegments, bratGenerator, bratVidGenerator).             *)
(*                                                                         *)
(* A text is a sequence of one-character strings.  Every length (segment   *)
(* width, line width, available width, line height, height budget) is an   *)
(* integer number of TENTHS OF A PIXEL: 1.3 * fontSize px (line height) is  *)
(* 13 * fontSize tenths, 1.2 * fontSize px (emoji size) is 12 * fontSize.   *)
(* Font sizes are plain pixels, as in the code.  The two tests whose        *)
(* outcome depends on the rounding of the code's doubles are computed in    *)
(* doubles: the height test of the scans (n * (fontSize * 1.3)) and the     *)
(* overflow test of the packer, whose currentLineWidth is the double the    *)
(* code accumulates; the width of a segment is the double of its tenths,    *)
(* and fontSize * 1.2 for an emoji.                                         *)
(***************************************************************************)
EXTENDS Integers, Sequences, FiniteSets, TLC

\* ------------------------------------------------------------------------
\* Program constants
\* ------------------------------------------------------------------------
\* let fontSize = 200: the ceiling the scan starts from
FontCeiling == 200
\* while (fontSize > 10): the floor the scan stops at
FontFloor == 10
\* fontSize -= 2
FontStep == 2
\* lineHeightMultiplier = 1.3, in tenths
LineHeightTenths == 13
\* emojiSize = fontSize * 1.2, in tenths
EmojiTenths == 12
\* bratGenerator: width = 512, height = 512, margin = 8, verticalPadding = 8
BratWidth == 512
BratHeight == 512
BratMargin == 8
BratVerticalPadding == 8
\* bratVidGenerator: const padding = 20
VidPadding == 20
\* ctx.font = 200px Arial: the probe size of the single-word branch
ReferenceSize == 200

\* ------------------------------------------------------------------------
\* Bounds of the model
\* ------------------------------------------------------------------------
\* longest text enumerated character by character
MaxLen == 3
\* most words in a pattern text (words joined by one separator)
MaxWords == 5
\* length of a long run of one character inside a pattern text
LongRun == 32
\* most calls suspended at an await at the same time
MaxCalls == 2

\* ------------------------------------------------------------------------
\* Characters and the glyph measurement service
\* ------------------------------------------------------------------------
Letters == {"a", "W"}
EmojiChars == {"E", "M"}
\* the emoji that have an image in emojiCache
EmojiCached == {"E"}
\* the backquote character, which a TLA+ string cannot hold
Backquote == "bq"
MarkupChars == {"*", "_", "~", Backquote}
SpaceChars == {" ", "\n", "\t"}

\* /\s/
IsSpace(c) == c \in SpaceChars

Min(a, b) == IF a <= b THEN a ELSE b

MinOf(S) == CHOOSE x \in S : \A y \in S : x <= y
MaxOf(S) == CHOOSE x \in S : \A y \in S : x >= y

\* the elements of a finite set of integers in increasing order
SortedSeq(S) ==
  [j \in 1..Cardinality(S) |-> CHOOSE k \in S : Cardinality({m \in S : m <= k}) = j]

Rep(c, n) == [k \in 1..n |-> c]

RECURSIVE Flatten(_)
Flatten(ss) == IF ss = <<>> THEN <<>> ELSE Head(ss) \o Flatten(Tail(ss))

\* the font strings the code assigns to ctx.font, by segment type
getFontForSegment(type) ==
  CASE type = "bold" -> "bold"
    [] type = "italic" -> "italic"
    [] type = "bolditalic" -> "bold italic"
    [] type = "monospace" -> "monospace"
    [] OTHER -> "plain"

\* advance width of one character in tenths of an em under a font
CharUnits(c, font) ==
  IF font = "monospace" THEN 6
  ELSE LET base == CASE c = "a" -> 5
                     [] c = "W" -> 9
                     [] c = " " -> 3
                     [] c = "\t" -> 3
                     [] c = "\n" -> 0
                     [] c \in EmojiChars -> 10
                     [] OTHER -> 4
       IN IF font \in {"bold", "bold italic"} THEN base + 1 ELSE base

RECURSIVE SumUnitsFrom(_, _, _)
SumUnitsFrom(s, k, font) ==
  IF k > Len(s) THEN 0 ELSE CharUnits(s[k], font) + SumUnitsFrom(s, k + 1, font)

SumUnits(s, font) == SumUnitsFrom(s, 1, font)

\* ctx.font = font at fontSize px; ctx.measureText(s).width, in tenths of a pixel
measureText(s, font, fontSize) == SumUnits(s, font) * fontSize

Seg(type, content, w) == [type |-> type, content |-> content, width |-> w]

\* ------------------------------------------------------------------------
\* parseTextToSegments
\* ------------------------------------------------------------------------
\* end of the maximal run of characters starting at p whose IsSpace is sp
RunEnd(s, p, sp) ==
  MaxOf({e \in p..Len(s) : \A k \in (p + 1)..e : IsSpace(s[k]) = sp})

\* content.match(/\S+|\s+/g): the maximal runs of content from position p
RECURSIVE SplitRuns(_, _)
SplitRuns(s, p) ==
  IF p > Len(s) THEN <<>>
  ELSE LET e == RunEnd(s, p, IsSpace(s[p]))
       IN <<SubSeq(s, p, e)>> \o SplitRuns(s, e + 1)

\* splitContentIntoWords(content, type, font)
splitContentIntoWords(content, type, font, fontSize) ==
  LET parts == SplitRuns(content, 1)
  IN [k \in 1..Len(parts) |->
        Seg(IF IsSpace(parts[k][1]) THEN "whitespace" ELSE type,
            parts[k], measureText(parts[k], font, fontSize))]

\* s has the characters of d at positions p .. p + Len(d) - 1
HasAt(s, p, d) ==
  /\ p + Len(d) - 1 <= Len(s)
  /\ \A k \in 1..Len(d) : s[p + k - 1] = d[k]

\* open.*?close at position p: the position of the last matched character,
\* 0 when the alternative does not match at p (a dot does not match a line break)
SpanEnd(s, p, open, close) ==
  IF ~HasAt(s, p, open) THEN 0
  ELSE LET from == p + Len(open)
           Q == {q \in from..Len(s) :
                   /\ HasAt(s, q, close)
                   /\ \A k \in from..(q - 1) : s[k] # "\n"}
       IN IF Q = {} THEN 0
          ELSE (CHOOSE q \in Q : \A r \in Q : q <= r) + Len(close) - 1

\* one match of tokenizerRegex at position p: [kind, end], kind "none" when
\* no alternative matches at p
TokenAt(s, p) ==
  LET bi1 == SpanEnd(s, p, <<"*", "_">>, <<"_", "*">>)
      bi2 == SpanEnd(s, p, <<"_", "*">>, <<"*", "_">>)
      b == SpanEnd(s, p, <<"*">>, <<"*">>)
      it == SpanEnd(s, p, <<"_">>, <<"_">>)
      st == SpanEnd(s, p, <<"~">>, <<"~">>)
      mo == SpanEnd(s, p, <<Backquote, Backquote, Backquote>>,
                   <<Backquote, Backquote, Backquote>>)
  IN CASE bi1 > 0 -> [kind |-> "bolditalic", end |-> bi1]
       [] bi1 = 0 /\ bi2 > 0 -> [kind |-> "bolditalic", end |-> bi2]
       [] bi1 = 0 /\ bi2 = 0 /\ b > 0 -> [kind |-> "bold", end |-> b]
       [] bi1 = 0 /\ bi2 = 0 /\ b = 0 /\ it > 0 -> [kind |-> "italic", end |-> it]
       [] bi1 = 0 /\ bi2 = 0 /\ b = 0 /\ it = 0 /\ st > 0 ->
            [kind |-> "strikethrough", end |-> st]
       [] bi1 = 0 /\ bi2 = 0 /\ b = 0 /\ it = 0 /\ st = 0 /\ mo > 0 ->
            [kind |-> "monospace", end |-> mo]
       [] OTHER ->
            IF IsSpace(s[p]) THEN [kind |-> "whitespace", end |-> RunEnd(s, p, TRUE)]
            ELSE IF s[p] \notin MarkupChars
                 THEN [kind |-> "text",
                       end |-> CHOOSE e \in p..Len(s) :
                                 /\ \A k \in p..e : ~IsSpace(s[k]) /\ s[k] \notin MarkupChars
                                 /\ (e = Len(s) \/ IsSpace(s[e + 1]) \/ s[e + 1] \in MarkupChars)]
                 ELSE [kind |-> "none", end |-> p]

\* the slice the code takes of a matched markup span
Inner(s, p, e, kind) ==
  LET d == IF kind = "bolditalic" THEN 2 ELSE IF kind = "monospace" THEN 3 ELSE 1
  IN SubSeq(s, p + d, e - d)

\* processChunk(chunk): the while loop over tokenizerRegex.exec(chunk)
RECURSIVE processChunk(_, _, _)
processChunk(chunk, p, fontSize) ==
  IF p > Len(chunk) THEN <<>>
  ELSE LET t == TokenAt(chunk, p)
           here ==
             CASE t.kind = "none" -> <<>>
               [] t.kind = "whitespace" ->
                    <<Seg("whitespace", SubSeq(chunk, p, t.end),
                          measureText(SubSeq(chunk, p, t.end), "plain", fontSize))>>
               [] t.kind = "text" ->
                    <<Seg("text", SubSeq(chunk, p, t.end),
                          measureText(SubSeq(chunk, p, t.end), "plain", fontSize))>>
               [] t.kind = "strikethrough" ->
                    splitContentIntoWords(Inner(chunk, p, t.end, t.kind),
                                          "strikethrough", "plain", fontSize)
               [] OTHER ->
                    splitContentIntoWords(Inner(chunk, p, t.end, t.kind),
                                          t.kind, getFontForSegment(t.kind), fontSize)
       IN here \o processChunk(chunk, t.end + 1, fontSize)

\* emojiDb.searchFromText: the position of the first emoji at or after p, 0 if none
NextEmoji(text, p) ==
  LET Q == {q \in p..Len(text) : text[q] \in EmojiChars}
  IN IF Q = {} THEN 0 ELSE CHOOSE q \in Q : \A r \in Q : q <= r

\* the emojiMatches.forEach loop and the remainder after the last emoji
RECURSIVE parseFrom(_, _, _)
parseFrom(text, lastIndex, fontSize) ==
  LET q == NextEmoji(text, lastIndex)
  IN IF q = 0
     THEN processChunk(SubSeq(text, lastIndex, Len(text)), 1, fontSize)
     ELSE processChunk(SubSeq(text, lastIndex, q - 1), 1, fontSize)
          \o <<Seg("emoji", <<text[q]>>, EmojiTenths * fontSize)>>
          \o parseFrom(text, q + 1, fontSize)

parseTextToSegments(text, fontSize) == parseFrom(text, 1, fontSize)

\* ------------------------------------------------------------------------
\* parseTextToSegments and the drawing context it writes to
\* ------------------------------------------------------------------------
\* a value of ctx.font: a style at a size in pixels
Font(style, size) == [style |-> style, size |-> size]

\* the font of a new canvas context (10px sans-serif), measured as plain text
FreshFont == Font("plain", 10)

\* a value of text for which typeof text is not 'string'
NotAString == <<"null">>

\* a value of highlightWords for which Array.isArray is false
NotAnArray == <<"null">>

\* typeof text !== 'string', fontSize <= 0: parseTextToSegments throws
parseThrows(t, fontSize) == t = NotAString \/ fontSize <= 0

\* the content of a whitespace or text match: the characters matched
MatchText(chunk, p, e) == SubSeq(chunk, p, e)

\* FontAtMeasure with the assignment ahead of the measurement of a whitespace
\* match missing
FontAtMeasureKept(old, span, fontSize, font) ==
  IF span = "whitespace" THEN font
  ELSE Font(getFontForSegment(span), fontSize)

\* FontAtMeasure with the assignments ahead of the whitespace and text
\* measurements missing
FontAtMeasureStale(old, span, fontSize, font) ==
  IF span \in {"whitespace", "text"} THEN font
  ELSE Font(getFontForSegment(span), fontSize)

\* ctx.font at the time the parts of a match of kind span are measured: the
\* code assigns the font of the span right before every measurement; the
\* older parser (old) measured whitespace and text matches under the font
\* the context held at that moment
FontAtMeasure(old, span, fontSize, font) ==
  IF old /\ span \in {"whitespace", "text"} THEN font
  ELSE Font(getFontForSegment(span), fontSize)

\* the runs one match contributes: the match itself, or the runs of
\* whitespace and of other characters inside a markup span
MatchParts(chunk, p, t) ==
  CASE t.kind = "none" -> <<>>
    [] t.kind \in {"whitespace", "text"} -> <<MatchText(chunk, p, t.end)>>
    [] OTHER -> SplitRuns(Inner(chunk, p, t.end, t.kind), 1)

\* one measurement per run, under the font the context holds at that time
MatchEvents(parts, span, used) ==
  [k \in 1..Len(parts) |->
     [type |-> IF IsSpace(parts[k][1]) THEN "whitespace" ELSE span,
      content |-> parts[k], span |-> span, font |-> used]]

\* ctx.font after a match: the older parser resets it to the plain font after
\* every match, the code leaves the font of the last measurement
FontAfterMatch(old, t, fontSize, font, used, nParts) ==
  IF t.kind = "none" THEN font
  ELSE IF old THEN Font("plain", fontSize)
  ELSE IF nParts = 0 THEN font ELSE used

\* the measurements made so far followed by those of the rest of the run
Prepend(events, r) == [events |-> events \o r.events, font |-> r.font]

\* processChunk(chunk) from position p with ctx.font = font: the measurements
\* made, in order, and ctx.font at the end
RECURSIVE chunkTrace(_, _, _, _, _)
chunkEmit(chunk, fontSize, font, old, t, used, parts) ==
  Prepend(MatchEvents(parts, t.kind, used),
          chunkTrace(chunk, t.end + 1, fontSize,
                     FontAfterMatch(old, t, fontSize, font, used, Len(parts)), old))

chunkMatch(chunk, p, fontSize, font, old, t) ==
  chunkEmit(chunk, fontSize, font, old, t,
            FontAtMeasure(old, t.kind, fontSize, font), MatchParts(chunk, p, t))

chunkTrace(chunk, p, fontSize, font, old) ==
  IF p > Len(chunk)
  THEN [events |-> <<>>, font |-> IF old THEN font ELSE Font("plain", fontSize)]
  ELSE chunkMatch(chunk, p, fontSize, font, old, TokenAt(chunk, p))

\* processChunk(chunk): nothing happens on an empty chunk
chunkOf(chunk, fontSize, font, old) ==
  IF chunk = <<>> THEN [events |-> <<>>, font |-> font]
  ELSE chunkTrace(chunk, 1, fontSize, font, old)

\* the emoji loop and the remainder, with ctx.font = font at lastIndex: q is
\* the position of the next emoji (0 if none), c the trace of the chunk before
RECURSIVE parseTrace(_, _, _, _, _)
parseEmoji(t, fontSize, old, q, c) ==
  IF q = 0
  THEN [events |-> c.events,
        font |-> IF old THEN c.font ELSE Font("plain", fontSize)]
  ELSE Prepend(Append(c.events, [type |-> "emoji", content |-> <<t[q]>>,
                                 span |-> "emoji", font |-> c.font]),
               parseTrace(t, q + 1, fontSize, c.font, old))

parseChunk(t, lastIndex, fontSize, font, old, q) ==
  parseEmoji(t, fontSize, old, q,
             chunkOf(SubSeq(t, lastIndex, IF q = 0 THEN Len(t) ELSE q - 1),
                     fontSize, font, old))

parseTrace(t, lastIndex, fontSize, font, old) ==
  parseChunk(t, lastIndex, fontSize, font, old, NextEmoji(t, lastIndex))

\* the segments pushed: an emoji has the width emojiSize, every other segment
\* the width measured under the font the context held
EventSegments(events, fontSize) ==
  [k \in 1..Len(events) |->
     Seg(events[k].type, events[k].content,
         IF events[k].type = "emoji" THEN EmojiTenths * fontSize
         ELSE measureText(events[k].content, events[k].font.style,
                          events[k].font.size))]

\* ------------------------------------------------------------------------
\* The doubles of the widths and of the height test
\* ------------------------------------------------------------------------
\* The code adds widths and multiplies heights in IEEE 754 doubles.  A double
\* that is not negative is kept as [m, e] for the value m * 2^e, where
\* m < 2^53 is a sequence of digits of LimbBits bits, lowest first, without
\* leading zeros (<<>> is 0) and, for a value that is not 0, odd.
LimbBits == 15
Limb == 32768
MantissaBits == 53

\* 2^n for n <= LimbBits
PowersOfTwo ==
  <<1, 2, 4, 8, 16, 32, 64, 128, 256, 512, 1024, 2048, 4096, 8192, 16384, 32768>>
Pow2(n) == PowersOfTwo[n + 1]

\* the digits without the zeros at the top
Trimmed(m) ==
  SubSeq(m, 1, MaxOf({0} \cup {j \in 1..Len(m) : m[j] # 0}))

\* the digits of an integer that is not negative
RECURSIVE DigitsOf(_)
DigitsOf(n) == IF n = 0 THEN <<>> ELSE <<n % Limb>> \o DigitsOf(n \div Limb)

\* digit j, 0 above the top
DigitAt(m, j) == IF j <= Len(m) THEN m[j] ELSE 0

\* bit p of m, the lowest being bit 0
BitAt(m, p) == (DigitAt(m, (p \div LimbBits) + 1) \div Pow2(p % LimbBits)) % 2

\* the number of bits of m
BitLength(m) ==
  IF m = <<>> THEN 0
  ELSE LimbBits * (Len(m) - 1)
         + (CHOOSE b \in 1..LimbBits :
              Pow2(b - 1) <= m[Len(m)] /\ m[Len(m)] < Pow2(b))

\* m * k for an integer 0 <= k < Limb
RECURSIVE TimesFrom(_, _, _, _)
TimesFrom(m, j, k, carry) ==
  IF j > Len(m) THEN <<carry>>
  ELSE <<(m[j] * k + carry) % Limb>>
         \o TimesFrom(m, j + 1, k, (m[j] * k + carry) \div Limb)

\* m + 1
RECURSIVE PlusOneFrom(_, _)
PlusOneFrom(m, j) ==
  IF j > Len(m) THEN <<1>>
  ELSE IF m[j] = Limb - 1 THEN <<0>> \o PlusOneFrom(m, j + 1)
  ELSE <<m[j] + 1>> \o SubSeq(m, j + 1, Len(m))

\* a + b from digit j on
RECURSIVE PlusFrom(_, _, _, _)
PlusFrom(a, b, j, carry) ==
  IF j > Len(a) /\ j > Len(b) THEN (IF carry = 0 THEN <<>> ELSE <<carry>>)
  ELSE <<(DigitAt(a, j) + DigitAt(b, j) + carry) % Limb>>
         \o PlusFrom(a, b, j + 1, (DigitAt(a, j) + DigitAt(b, j) + carry) \div Limb)

\* floor(m / 2^s)
ShiftRight(m, s) ==
  Trimmed([j \in 1..(Len(m) - (s \div LimbBits)) |->
             DigitAt(m, j + (s \div LimbBits)) \div Pow2(s % LimbBits)
               + (DigitAt(m, j + (s \div LimbBits) + 1) % Pow2(s % LimbBits))
                   * Pow2(LimbBits - (s % LimbBits))])

\* m * 2^s
ShiftLeft(m, s) ==
  Trimmed([j \in 1..(s \div LimbBits) |-> 0]
            \o TimesFrom(m, 1, Pow2(s % LimbBits), 0))

\* whether one of the s lowest bits of m is set
LowBitsSet(m, s) ==
  \/ \E j \in 1..(s \div LimbBits) : DigitAt(m, j) # 0
  \/ DigitAt(m, (s \div LimbBits) + 1) % Pow2(s % LimbBits) # 0

\* the lowest digit of m that is not 0, for m that is not 0
LowestDigit(m) == MinOf({j \in 1..Len(m) : m[j] # 0})

\* the lowest bit of the digit d that is set, for d that is not 0
LowestBitOf(d) == MinOf({b \in 0..(LimbBits - 1) : (d \div Pow2(b)) % 2 = 1})

\* the lowest bit of m that is set, for m that is not 0
LowestBitFrom(m, j) == LimbBits * (j - 1) + LowestBitOf(m[j])
LowestBit(m) == LowestBitFrom(m, LowestDigit(m))

\* m / 2^s rounded to the nearest integer, a tie to the even one
RoundedShift(m, s) ==
  IF BitAt(m, s - 1) = 1 /\ (LowBitsSet(m, s - 1) \/ BitAt(m, s) = 1)
  THEN PlusOneFrom(ShiftRight(m, s), 1)
  ELSE ShiftRight(m, s)

\* a power of two that the rounding carried into has one bit too many
Normalized(m, e) ==
  IF BitLength(m) > MantissaBits
  THEN [m |-> ShiftRight(m, 1), e |-> e + 1]
  ELSE [m |-> m, e |-> e]

\* the double nearest to m * 2^e, for m of n bits
RoundBits(m, e, n) ==
  IF n <= MantissaBits THEN [m |-> m, e |-> e]
  ELSE Normalized(RoundedShift(m, n - MantissaBits), e + n - MantissaBits)

\* the double nearest to m * 2^e
RoundDouble(m, e) == RoundBits(m, e, BitLength(m))

\* m * 2^e with the low zero bits of m moved into e
WithoutLowBits(m, e, low) == [m |-> ShiftRight(m, low), e |-> e + low]

\* the one record of a double: 0 is [<<>>, 0], any other value has m odd
Canonical(d) ==
  IF d.m = <<>> THEN [m |-> <<>>, e |-> 0]
  ELSE WithoutLowBits(d.m, d.e, LowestBit(d.m))

\* the double of an integer that is not negative
IntDouble(n) == Canonical([m |-> DigitsOf(n), e |-> 0])

\* const lineHeightMultiplier = 1.3: the double 5854679515581645 * 2^-52
LineHeightMultiplier == [m |-> <<19661, 6553, 13107, 166>>, e |-> 0 - 52]

\* the 1.2 of emojiSize = fontSize * 1.2: the double 5404319552844595 * 2^-52
EmojiMultiplier == [m |-> <<13107, 26214, 19660, 153>>, e |-> 0 - 52]

\* k * d for an integer 0 <= k < Limb, which is a double itself
DoubleTimes(k, d) == Canonical(RoundDouble(Trimmed(TimesFrom(d.m, 1, k, 0)), d.e))

\* the digits of d in units of 2^e, for e <= d.e
Aligned(d, e) == ShiftLeft(d.m, d.e - e)

\* a + b
DoublePlus(a, b) ==
  IF a.m = <<>> THEN b
  ELSE IF b.m = <<>> THEN a
  ELSE Canonical(RoundDouble(PlusFrom(Aligned(a, Min(a.e, b.e)),
                                      Aligned(b, Min(a.e, b.e)), 1, 0),
                             Min(a.e, b.e)))

\* the remainder of the digits of m from digit j up, divided by 0 < b < Limb
RECURSIVE RemAbove(_, _, _)
RemAbove(m, j, b) ==
  IF j > Len(m) THEN 0 ELSE (RemAbove(m, j + 1, b) * Limb + m[j]) % b

\* the digits 1..j of floor(m / b), rem being the remainder of the digits
\* above j
RECURSIVE QuotientFrom(_, _, _, _)
QuotientFrom(m, j, b, rem) ==
  IF j = 0 THEN <<>>
  ELSE QuotientFrom(m, j - 1, b, (rem * Limb + m[j]) % b)
         \o <<(rem * Limb + m[j]) \div b>>

\* floor(m / b) for 0 < b < Limb
QuotientDigits(m, b) == Trimmed(QuotientFrom(m, Len(m), b, 0))

\* the bits of a quotient that are computed before it is rounded: a divisor
\* below Limb leaves more of them than a double keeps
QuotientBits == MantissaBits + LimbBits + 2

\* 2 * q, plus 1 when the division left a remainder: what is below the bits
\* of q only matters to the rounding as being 0 or not
WithSticky(q, rem) ==
  IF rem = 0 THEN Trimmed(TimesFrom(q, 1, 2, 0))
  ELSE PlusOneFrom(Trimmed(TimesFrom(q, 1, 2, 0)), 1)

\* d / b for a double d and an integer 0 < b < Limb
DoubleOver(d, b) ==
  IF d.m = <<>> THEN d
  ELSE Canonical(RoundDouble(
         WithSticky(QuotientDigits(ShiftLeft(d.m, QuotientBits), b),
                    RemAbove(ShiftLeft(d.m, QuotientBits), 1, b)),
         d.e - (QuotientBits + 1)))

\* a / b in doubles, for integers a >= 0 and 0 < b < Limb; a quotient that is
\* an integer is a double as it is
DoubleQuotient(a, b) ==
  IF a % b = 0 THEN IntDouble(a \div b)
  ELSE DoubleOver([m |-> DigitsOf(a), e |-> 0], b)

\* a < b for digits without leading zeros
DigitsLess(a, b) ==
  \/ Len(a) < Len(b)
  \/ /\ Len(a) = Len(b)
     /\ \E j \in 1..Len(a) :
          a[j] < b[j] /\ \A h \in (j + 1)..Len(a) : a[h] = b[h]

\* a <= b
DoubleLessEq(a, b) ==
  ~DigitsLess(Aligned(b, Min(a.e, b.e)), Aligned(a, Min(a.e, b.e)))

\* a - b from digit j on, for a >= b
RECURSIVE MinusFrom(_, _, _, _)
MinusFrom(a, b, j, borrow) ==
  IF j > Len(a) THEN <<>>
  ELSE <<(DigitAt(a, j) - DigitAt(b, j) - borrow + Limb) % Limb>>
         \o MinusFrom(a, b, j + 1,
                      IF DigitAt(a, j) - DigitAt(b, j) - borrow < 0 THEN 1 ELSE 0)

\* a - b for a >= b
DoubleMinus(a, b) ==
  IF b.m = <<>> THEN a
  ELSE Canonical(RoundDouble(Trimmed(MinusFrom(Aligned(a, Min(a.e, b.e)),
                                               Aligned(b, Min(a.e, b.e)), 1, 0)),
                             Min(a.e, b.e)))

\* A double with its sign, for positionX and spaceBetween, which are negative
\* when a line is wider than availableWidth: [neg, abs], 0 being not negative
Positive(d) == [neg |-> FALSE, abs |-> d]
Negative(d) == [neg |-> d.m # <<>>, abs |-> d]
Opposite(x) == IF x.neg THEN Positive(x.abs) ELSE Negative(x.abs)

\* a - b for doubles a and b that are not negative
SignedMinus(a, b) ==
  IF b.m = <<>> THEN Positive(a)
  ELSE IF a.m = <<>> THEN Negative(b)
  ELSE IF DoubleLessEq(b, a) THEN Positive(DoubleMinus(a, b))
  ELSE Negative(DoubleMinus(b, a))

\* x + y
SignedPlus(x, y) ==
  IF x.neg = y.neg THEN [neg |-> x.neg, abs |-> DoublePlus(x.abs, y.abs)]
  ELSE IF x.neg THEN SignedMinus(y.abs, x.abs)
  ELSE SignedMinus(x.abs, y.abs)

\* x / b for an integer 0 < b < Limb
SignedOver(x, b) == [neg |-> x.neg, abs |-> DoubleOver(x.abs, b)]

\* d <= n for an integer n
DoubleAtMost(d, n) == n >= 0 /\ DoubleLessEq(d, IntDouble(n))

\* the double a width of the model, in tenths of a pixel, stands for:
\* ctx.measureText(s).width
DoubleOfTenths(w) == DoubleQuotient(w, 10)

\* segment.width as the code holds it: emojiSize for an emoji, the measured
\* width for any other segment
WidthOf(segment, fontSize) ==
  IF segment.type = "emoji" THEN DoubleTimes(fontSize, EmojiMultiplier)
  ELSE DoubleOfTenths(segment.width)

\* ------------------------------------------------------------------------
\* rebuildLinesFromSegments
\* ------------------------------------------------------------------------
\* the guards that make rebuildLinesFromSegments throw a TypeError
rebuildThrows(maxWidth, fontSize) == maxWidth <= 0 \/ fontSize <= 0

\* segment.type !== 'whitespace' && segment.type !== 'emoji' && segment.width > maxWidth
NeedsSplit(segment, maxWidth) ==
  /\ segment.type # "whitespace"
  /\ segment.type # "emoji"
  /\ segment.width > maxWidth

\* SplitFlush with the test of tempWord.length missing: an empty tempWord is
\* flushed too
SplitFlushAnyLength(testWidth, maxWidth, tempLen) == testWidth > maxWidth

\* SplitFlush with an off-by-one length test: a one-character tempWord is never flushed
SplitFlushLate(testWidth, maxWidth, tempLen) == testWidth > maxWidth /\ tempLen > 1

\* testWidth > maxWidth && tempWord.length > 0
SplitFlush(testWidth, maxWidth, tempLen) == testWidth > maxWidth /\ tempLen > 0

\* Overflows with >= for >: a segment that exactly fills the line is moved down
OverflowsOnTie(currentLineWidth, segWidth, maxWidth, lineLen) ==
  /\ lineLen > 0
  /\ DoubleLessEq(DoubleOfTenths(maxWidth), DoublePlus(currentLineWidth, segWidth))

\* currentLineWidth + segment.width > maxWidth && currentLine.length > 0: the
\* two widths are doubles and so is their sum, maxWidth is in tenths
Overflows(currentLineWidth, segWidth, maxWidth, lineLen) ==
  /\ lineLen > 0
  /\ ~DoubleLessEq(DoublePlus(currentLineWidth, segWidth), DoubleOfTenths(maxWidth))

\* SkipsWhitespace with no segment skipped
SkipsWhitespaceNever(segment, lineLen) == FALSE

\* SkipsWhitespace with the test of the empty line missing: every whitespace
\* segment is dropped
SkipsWhitespaceAlways(segment, lineLen) == segment.type = "whitespace"

\* segment.type === 'whitespace' && currentLine.length === 0
SkipsWhitespace(segment, lineLen) == segment.type = "whitespace" /\ lineLen = 0

\* the character loop of the hard split: the pieces of content, in order; the
\* last piece is the one left in tempWord when the loop ends
RECURSIVE SplitPieces(_, _, _, _, _)
SplitPieces(content, start, font, fontSize, maxWidth) ==
  LET \* tempWord holds content[start..e]; it is flushed before the first
      \* character whose addition makes testWidth exceed maxWidth
      stops == {e \in start..Len(content) :
                  \/ e = Len(content)
                  \/ SplitFlush(measureText(SubSeq(content, start, e + 1), font, fontSize),
                                maxWidth, e - start + 1)}
      e == MinOf(stops)
  IN IF e = Len(content) THEN <<SubSeq(content, start, e)>>
     ELSE <<SubSeq(content, start, e)>>
          \o SplitPieces(content, e + 1, font, fontSize, maxWidth)

\* the hard split of content: the loop starts with tempWord empty, and the
\* flush test is made on the first character too
HardSplit(content, font, fontSize, maxWidth) ==
  (IF SplitFlush(measureText(SubSeq(content, 1, 1), font, fontSize), maxWidth, 0)
   THEN << <<>> >> ELSE <<>>)
  \o SplitPieces(content, 1, font, fontSize, maxWidth)

\* { ...segment, content: tempWord, width: ctx.measureText(tempWord).width }
Piece(segment, tempWord, fontSize) ==
  Seg(segment.type, tempWord,
      measureText(tempWord, getFontForSegment(segment.type), fontSize))

\* the state of the packer before the first segment
PackStart == [lines |-> <<>>, currentLine |-> <<>>, currentLineWidth |-> IntDouble(0)]

\* the end of the body of segments.forEach, for a segment that is neither
\* skipped nor split: segWidth is segment.width
PackPlain(st, segment, segWidth, maxWidth) ==
  IF Overflows(st.currentLineWidth, segWidth, maxWidth, Len(st.currentLine))
  THEN [lines |-> Append(st.lines, st.currentLine),
        currentLine |-> <<segment>>,
        currentLineWidth |-> segWidth]
  ELSE [lines |-> st.lines,
        currentLine |-> Append(st.currentLine, segment),
        currentLineWidth |-> DoublePlus(st.currentLineWidth, segWidth)]

\* the body of segments.forEach: the packer state after one segment
PackSegment(st, segment, maxWidth, fontSize) ==
  IF SkipsWhitespace(segment, Len(st.currentLine)) THEN st
  ELSE IF NeedsSplit(segment, maxWidth)
  THEN LET flushed == IF Len(st.currentLine) > 0
                      THEN Append(st.lines, st.currentLine) ELSE st.lines
           pieces == HardSplit(segment.content,
                               getFontForSegment(segment.type), fontSize, maxWidth)
           n == Len(pieces)
           last == Piece(segment, pieces[n], fontSize)
       IN [lines |-> flushed \o [k \in 1..(n - 1) |-> <<Piece(segment, pieces[k], fontSize)>>],
           currentLine |-> <<last>>,
           currentLineWidth |-> DoubleOfTenths(last.width)]
  ELSE PackPlain(st, segment, WidthOf(segment, fontSize), maxWidth)

\* the lines returned once forEach is over: the last line is pushed if not empty
PackResult(st) ==
  IF Len(st.currentLine) > 0 THEN Append(st.lines, st.currentLine) ELSE st.lines

RECURSIVE PackFold(_, _, _, _, _)
PackFold(st, segments, k, maxWidth, fontSize) ==
  IF k > Len(segments) THEN st
  ELSE PackFold(PackSegment(st, segments[k], maxWidth, fontSize),
                segments, k + 1, maxWidth, fontSize)

\* rebuildLinesFromSegments(segments, maxWidth, ctx, fontSize), when it does not throw
rebuildLinesFromSegments(segments, maxWidth, fontSize) ==
  IF segments = <<>> THEN <<>>
  ELSE PackResult(PackFold(PackStart, segments, 1, maxWidth, fontSize))

RECURSIVE SumWidths(_)
SumWidths(line) == IF line = <<>> THEN 0 ELSE Head(line).width + SumWidths(Tail(line))

\* ------------------------------------------------------------------------
\* One candidate font size of the fit search
\* ------------------------------------------------------------------------
\* text.split('\n')
SplitLines(text) ==
  LET breaks == SortedSeq({k \in 1..Len(text) : text[k] = "\n"})
      n == Len(breaks)
  IN [j \in 1..(n + 1) |->
        SubSeq(text,
               IF j = 1 THEN 1 ELSE breaks[j - 1] + 1,
               IF j = n + 1 THEN Len(text) ELSE breaks[j] - 1)]

\* text.trim()
Trim(s) ==
  LET solid == {k \in 1..Len(s) : ~IsSpace(s[k])}
  IN IF solid = {} THEN <<>> ELSE SubSeq(s, MinOf(solid), MaxOf(solid))

\* recalculateSegmentWidths(segments, fontSize, ctx) of bratVidGenerator
recalculateSegmentWidths(segments, fontSize) ==
  [k \in 1..Len(segments) |->
     LET seg == segments[k]
     IN CASE seg.type \in {"bold", "italic", "bolditalic", "monospace"} ->
               Seg(seg.type, seg.content,
                   measureText(seg.content, getFontForSegment(seg.type), fontSize))
          [] seg.type \in {"strikethrough", "text"} ->
               Seg(seg.type, seg.content, measureText(seg.content, "plain", fontSize))
          [] seg.type = "emoji" -> Seg(seg.type, seg.content, EmojiTenths * fontSize)
          [] OTHER -> seg]

\* WrapLine with nothing pushed for an empty source line
WrapLineSkipsEmpty(singleLineText, fontSize, maxWidth, recalc) ==
  IF singleLineText = <<>> THEN <<>>
  ELSE rebuildLinesFromSegments(parseTextToSegments(singleLineText, fontSize),
                                maxWidth, fontSize)

\* the lines one logical source line contributes at a candidate size
WrapLine(singleLineText, fontSize, maxWidth, recalc) ==
  IF singleLineText = <<>> THEN << <<>> >>
  ELSE IF recalc
  THEN rebuildLinesFromSegments(
         recalculateSegmentWidths(parseTextToSegments(singleLineText, fontSize), fontSize),
         maxWidth, fontSize)
  ELSE rebuildLinesFromSegments(parseTextToSegments(singleLineText, fontSize),
                                maxWidth, fontSize)

\* the for loop over textLines: currentRenderLines of one candidate size
WrapLines(textLines, fontSize, maxWidth, recalc) ==
  Flatten([k \in 1..Len(textLines) |->
             WrapLine(textLines[k], fontSize, maxWidth, recalc)])

RenderLines(text, fontSize, maxWidth, recalc) ==
  WrapLines(SplitLines(text), fontSize, maxWidth, recalc)

NonWhitespace(line) == SelectSeq(line, LAMBDA seg : seg.type # "whitespace")

HasType(line, type) == \E k \in 1..Len(line) : line[k].type = type

FirstOfType(line, type) ==
  line[CHOOSE k \in 1..Len(line) :
         line[k].type = type /\ \A j \in 1..(k - 1) : line[j].type # type]

\* bratGenerator: a line of one text and one emoji is put on two lines
TextEmojiSplit(lines) ==
  IF /\ Len(lines) = 1
     /\ Len(NonWhitespace(lines[1])) = 2
     /\ HasType(lines[1], "text")
     /\ HasType(lines[1], "emoji")
  THEN << <<FirstOfType(lines[1], "text")>>, <<FirstOfType(lines[1], "emoji")>> >>
  ELSE lines

\* currentRenderLines of bratGenerator at a candidate size
BratLines(teks, fontSize) ==
  TextEmojiSplit(RenderLines(teks, fontSize, (BratWidth - 2 * BratMargin) * 10,
                             FALSE))

\* currentRenderLines of bratVidGenerator at a candidate size
VidLines(currentText, fontSize, w) ==
  RenderLines(currentText, fontSize, (w - 2 * VidPadding) * 10, TRUE)

\* ctx.font after recalculateSegmentWidths: the font assigned for the last
\* segment that is measured again, font if there is none
FontAfterRecalc(segments, fontSize, font) ==
  IF \A k \in 1..Len(segments) : segments[k].type \in {"whitespace", "emoji"}
  THEN font
  ELSE Font(getFontForSegment(
              segments[MaxOf({k \in 1..Len(segments) :
                                segments[k].type \notin {"whitespace", "emoji"}})].type),
            fontSize)

\* ctx.font after rebuildLinesFromSegments: the font assigned for the last
\* segment that was hard-split, font if there is none
FontAfterRebuild(segments, maxWidth, fontSize, font) ==
  IF \A k \in 1..Len(segments) : ~NeedsSplit(segments[k], maxWidth)
  THEN font
  ELSE Font(getFontForSegment(
              segments[MaxOf({k \in 1..Len(segments) :
                                NeedsSplit(segments[k], maxWidth)})].type),
            fontSize)

\* the lines of a source line followed by those of the source lines after it
PrependLines(lines, r) == [lines |-> lines \o r.lines, font |-> r.font]

\* the for loop over textLines of bratVidGenerator from source line k on, on
\* the shared measuring context tempCtx whose font is font: the lines pushed
\* to currentRenderLines and the font left on the context
RECURSIVE VidLinesFrom(_, _, _, _, _)
vidLinePacked(textLines, k, fontSize, maxW, font, sized) ==
  PrependLines(rebuildLinesFromSegments(sized, maxW, fontSize),
               VidLinesFrom(textLines, k + 1, fontSize, maxW,
                            FontAfterRebuild(sized, maxW, fontSize,
                                             FontAfterRecalc(sized, fontSize, font))))

vidLineParsed(textLines, k, fontSize, maxW, p) ==
  vidLinePacked(textLines, k, fontSize, maxW, p.font,
                recalculateSegmentWidths(EventSegments(p.events, fontSize), fontSize))

VidLinesFrom(textLines, k, fontSize, maxW, font) ==
  IF k > Len(textLines) THEN [lines |-> <<>>, font |-> font]
  ELSE IF textLines[k] = <<>>
  THEN PrependLines(<< <<>> >>, VidLinesFrom(textLines, k + 1, fontSize, maxW, font))
  ELSE vidLineParsed(textLines, k, fontSize, maxW,
                     parseTrace(textLines[k], 1, fontSize, font, FALSE))

\* one candidate size of bratVidGenerator on tempCtx: currentRenderLines and
\* the font left on tempCtx
VidLinesOnCtx(currentText, fontSize, w, font) ==
  VidLinesFrom(SplitLines(currentText), 1, fontSize, (w - 2 * VidPadding) * 10, font)

\* the font left on tempCtx when rebuildLinesFromSegments throws on the first
\* source line that is not empty: it was parsed and measured again before
FontAtThrow(currentText, fontSize) ==
  FontAfterRecalc(
    parseTextToSegments(
      SplitLines(currentText)[MinOf({k \in 1..Len(SplitLines(currentText)) :
                                       SplitLines(currentText)[k] # <<>>})],
      fontSize),
    fontSize, Font("plain", fontSize))

\* the for loop over textLines of bratGenerator from source line k on, on the
\* context ctx whose font is font: the font left on the context
RECURSIVE BratFontFrom(_, _, _, _, _)
bratFontParsed(textLines, k, fontSize, maxW, p) ==
  BratFontFrom(textLines, k + 1, fontSize, maxW,
               FontAfterRebuild(EventSegments(p.events, fontSize), maxW, fontSize,
                                p.font))

BratFontFrom(textLines, k, fontSize, maxW, font) ==
  IF k > Len(textLines) THEN font
  ELSE IF textLines[k] = <<>>
  THEN BratFontFrom(textLines, k + 1, fontSize, maxW, font)
  ELSE bratFontParsed(textLines, k, fontSize, maxW,
                      parseTrace(textLines[k], 1, fontSize, font, FALSE))

\* one candidate size of bratGenerator on ctx: currentRenderLines and the font
\* left on ctx
BratLinesOnCtx(teks, fontSize, font) ==
  [lines |-> BratLines(teks, fontSize),
   font |-> BratFontFrom(SplitLines(teks), 1, fontSize,
                         (BratWidth - 2 * BratMargin) * 10, font)]

\* ------------------------------------------------------------------------
\* The height test
\* ------------------------------------------------------------------------
\* HeightFits with the line height multiplier forgotten
HeightFitsNoMultiplier(nLines, fontSize, budgetPx) ==
  nLines * (10 * fontSize) <= budgetPx * 10

\* totalTextHeight <= height - 2 * padding, with currentLineHeight =
\* fontSize * lineHeightMultiplier and totalTextHeight =
\* currentRenderLines.length * currentLineHeight, both products of doubles
HeightFits(nLines, fontSize, budgetPx) ==
  DoubleAtMost(DoubleTimes(nLines, DoubleTimes(fontSize, LineHeightMultiplier)),
               budgetPx)

\* NextCandidate with a step of one pixel
NextCandidateByOne(fontSize) == fontSize - 1

\* fontSize -= 2
NextCandidate(fontSize) == fontSize - FontStep

\* BreaksScan with the two-line rule applied to every word count
BreaksScanTwoLinesOnly(wordCount, nLines) == nLines = 2

\* BreaksScan with the two-line rule of four-word texts dropped
BreaksScanAlways(wordCount, nLines) == TRUE

\* whether a candidate that passed the height test ends the scan: bratGenerator
\* breaks at once unless wordCount is 4, and then only on a two-line layout
BreaksScan(wordCount, nLines) == IF wordCount = 4 THEN nLines = 2 ELSE TRUE

\* (teks.trim().match(/(\p{L}|\p{N}|\p{Emoji_Presentation})+/gu) || []).length
IsWordChar(c) == c \in Letters \cup EmojiChars

wordCountOf(teks) ==
  LET t == Trim(teks)
  IN Cardinality({k \in 1..Len(t) :
                    IsWordChar(t[k]) /\ (k = 1 \/ ~IsWordChar(t[k - 1]))})

\* the size of the single-word branch: Math.floor(Math.min(heightBasedSize, widthBasedSize))
AnalyticSize(theOnlyWord) ==
  LET heightBased == ((BratHeight - 2 * BratVerticalPadding) * 10) \div LineHeightTenths
      referenceWidth == measureText(theOnlyWord, "plain", ReferenceSize)
      widthBased == ((BratWidth - 2 * BratMargin) * 10 * ReferenceSize) \div referenceWidth
  IN Min(heightBased, widthBased)

\* IsSingleWord with the single-word branch never taken
IsSingleWordNever(lines) == FALSE

\* finalLines.length === 1 && finalLines[0].length === 1 && finalLines[0][0].type === 'text'
IsSingleWord(lines) ==
  Len(lines) = 1 /\ Len(lines[1]) = 1 /\ lines[1][1].type = "text"

\* ------------------------------------------------------------------------
\* The token prefixes of bratVidGenerator
\* ------------------------------------------------------------------------
\* text.match(/\S+|\n/g) || []
Tokens(text) ==
  LET starts == SortedSeq({p \in 1..Len(text) :
                             \/ text[p] = "\n"
                             \/ ~IsSpace(text[p]) /\ (p = 1 \/ IsSpace(text[p - 1]))})
  IN [j \in 1..Len(starts) |->
        IF text[starts[j]] = "\n" THEN <<"\n">>
        ELSE SubSeq(text, starts[j], RunEnd(text, starts[j], FALSE))]

\* frameTokens.join(' ')
RECURSIVE JoinSpace(_, _)
JoinSpace(toks, k) ==
  IF k = 0 THEN <<>>
  ELSE IF k = 1 THEN toks[1]
  ELSE JoinSpace(toks, k - 1) \o <<" ">> \o toks[k]

\* s.replace(/pat/g, rep) for a literal pattern: matches taken left to right
RECURSIVE ReplaceAll(_, _, _)
ReplaceAll(s, pat, rep) ==
  LET M == {k \in 1..Len(s) : HasAt(s, k, pat)}
  IN IF M = {} THEN s
     ELSE SubSeq(s, 1, MinOf(M) - 1) \o rep
          \o ReplaceAll(SubSeq(s, MinOf(M) + Len(pat), Len(s)), pat, rep)

\* PrefixText with the last token taken for the slice of the first i tokens
PrefixTextLast(toks, i) ==
  ReplaceAll(ReplaceAll(ReplaceAll(toks[i],
                                   <<" ", "\n", " ">>, <<"\n">>),
                        <<"\n", " ">>, <<"\n">>),
             <<" ", "\n">>, <<"\n">>)

\* PrefixText with the first token left out of the prefixes of two or more
PrefixTextTail(toks, i) ==
  IF i = 1 THEN toks[1]
  ELSE ReplaceAll(ReplaceAll(ReplaceAll(JoinSpace(SubSeq(toks, 2, i), i - 1),
                                        <<" ", "\n", " ">>, <<"\n">>),
                             <<"\n", " ">>, <<"\n">>),
                  <<" ", "\n">>, <<"\n">>)

\* PrefixText with the last replace, of a space before a line break, missing
PrefixTextTwoReplaces(toks, i) ==
  ReplaceAll(ReplaceAll(JoinSpace(toks, i), <<" ", "\n", " ">>, <<"\n">>),
             <<"\n", " ">>, <<"\n">>)

\* currentText of frame i
PrefixText(toks, i) ==
  ReplaceAll(ReplaceAll(ReplaceAll(JoinSpace(toks, i),
                                   <<" ", "\n", " ">>, <<"\n">>),
                        <<"\n", " ">>, <<"\n">>),
             <<" ", "\n">>, <<"\n">>)

\* ------------------------------------------------------------------------
\* Argument checks
\* ------------------------------------------------------------------------
HexChars == {"0", "1", "2", "3", "4", "5", "6", "7", "8", "9",
             "A", "B", "C", "D", "E", "F", "a", "b", "c", "d", "e", "f"}

\* /^#[0-9A-F]{6}$/i.test(color)
IsHexColor(c) ==
  /\ Len(c) = 7
  /\ c[1] = "#"
  /\ \A k \in 2..7 : c[k] \in HexChars

\* the checks at the head of bratGenerator
BratArgsInvalid(teks, hw) ==
  \/ teks = NotAString
  \/ Trim(teks) = <<>>
  \/ hw = NotAnArray

\* VidArgsInvalid with the test of the colours missing
VidArgsInvalidNoColor(t, w, h, bg, fg, hw) ==
  \/ t = NotAString
  \/ Trim(t) = <<>>
  \/ hw = NotAnArray
  \/ w <= 0
  \/ h <= 0

\* the checks at the head of bratVidGenerator
VidArgsInvalid(t, w, h, bg, fg, hw) ==
  \/ t = NotAString
  \/ Trim(t) = <<>>
  \/ hw = NotAnArray
  \/ w <= 0
  \/ h <= 0
  \/ ~IsHexColor(bg)
  \/ ~IsHexColor(fg)

\* ------------------------------------------------------------------------
\* Rendering of a line
\* ------------------------------------------------------------------------
\* the segments renderSegment is called with for one line: all of them when
\* at most one is not whitespace, else those that are not whitespace
DrawnOf(line) == IF Len(NonWhitespace(line)) <= 1 THEN line ELSE NonWhitespace(line)

\* the segments renderSegment is called with, in the order of the calls
DrawOrder(lines) == Flatten([j \in 1..Len(lines) |-> DrawnOf(lines[j])])

\* ctx.font as renderSegment assigns it for a segment
RenderFont(segment, size) ==
  Font(IF segment.type \in {"bold", "italic", "bolditalic", "monospace"}
       THEN getFontForSegment(segment.type) ELSE "plain",
       size)

\* !emojiCache[segment.content]: renderSegment throws
DrawThrows(segment) ==
  segment.type = "emoji" /\ segment.content[1] \notin EmojiCached

\* renderSegment throws on one of the segments of the layout
RenderThrows(lines) ==
  \E k \in 1..Len(DrawOrder(lines)) : DrawThrows(DrawOrder(lines)[k])

\* GapCount with the number of segments taken for the number of gaps
GapCountAll(count) == count

\* the divisor of spaceBetween: contentSegments.length - 1
GapCount(count) == count - 1

\* segment.width as the segment holds it: the double it was given when it was
\* last measured, at whatever size that was
HeldWidth(segment) == WidthOf(segment, segment.width \div EmojiTenths)

\* contentSegments.reduce((sum, seg) => sum + seg.width, 0), from segment k on
RECURSIVE TotalWidth(_, _, _)
TotalWidth(contentSegments, k, sum) ==
  IF k > Len(contentSegments) THEN sum
  ELSE TotalWidth(contentSegments, k + 1,
                  DoublePlus(sum, HeldWidth(contentSegments[k])))

\* (availableWidth - totalContentWidth) / (contentSegments.length - 1)
SpaceBetween(contentSegments, availableWidth) ==
  SignedOver(SignedMinus(DoubleOfTenths(availableWidth),
                         TotalWidth(contentSegments, 1, IntDouble(0))),
             GapCount(Len(contentSegments)))

\* positionX += segment.width, and in a justified line, before every segment
\* but the first, positionX += spaceBetween
AfterSegment(segs, k, positionX, spaceBetween, justified) ==
  IF justified /\ k < Len(segs)
  THEN SignedPlus(SignedPlus(positionX, Positive(HeldWidth(segs[k]))), spaceBetween)
  ELSE SignedPlus(positionX, Positive(HeldWidth(segs[k])))

\* the loop over the segments that are drawn, from segment k on: each
\* segment with the positionX renderSegment is called with
RECURSIVE DrawFrom(_, _, _, _, _)
DrawFrom(segs, k, positionX, spaceBetween, justified) ==
  IF k > Len(segs) THEN <<>>
  ELSE <<[segment |-> segs[k], x |-> positionX]>>
         \o DrawFrom(segs, k + 1,
                     AfterSegment(segs, k, positionX, spaceBetween, justified),
                     spaceBetween, justified)

\* the segments drawn for one line and the x of each, a double in pixels;
\* margin and availableWidth are in tenths
DrawLine(line, margin, availableWidth) ==
  IF Len(NonWhitespace(line)) <= 1
  THEN [draws |-> DrawFrom(line, 1, Positive(DoubleOfTenths(margin)),
                           Positive(IntDouble(0)), FALSE)]
  ELSE [draws |-> DrawFrom(NonWhitespace(line), 1, Positive(DoubleOfTenths(margin)),
                           SpaceBetween(NonWhitespace(line), availableWidth), TRUE)]

\* the for loop over finalLines
DrawLines(lines, margin, availableWidth) ==
  [j \in 1..Len(lines) |-> DrawLine(lines[j], margin, availableWidth)]

\* ------------------------------------------------------------------------
\* Inputs
\* ------------------------------------------------------------------------
RECURSIVE SeqsUpTo(_, _)
SeqsUpTo(S, n) ==
  IF n = 0 THEN {<<>>}
  ELSE LET shorter == SeqsUpTo(S, n - 1)
       IN shorter \cup {Append(t, c) : t \in {u \in shorter : Len(u) = n - 1}, c \in S}

\* every text of at most MaxLen characters over a small alphabet
ShortTexts == SeqsUpTo({"a", " ", "\n", "*", "E"}, MaxLen)

RECURSIVE JoinWords(_, _, _)
JoinWords(word, sep, n) ==
  IF n = 1 THEN word ELSE word \o sep \o JoinWords(word, sep, n - 1)

\* n equal words joined by one separator: short, medium or long runs of a
\* narrow or a wide letter, separated by runs of spaces or of line breaks
PatternTexts ==
  {JoinWords(Rep(wc, wn), Rep(sc, sn), n) :
     wc \in Letters, wn \in {1, 3}, sc \in {" ", "\n"}, sn \in {1, 2},
     n \in 1..MaxWords}

\* one long run of a character between two letters: a long word, a long run
\* of spaces, many empty source lines
LongTexts == {<<"a">> \o Rep(c, LongRun) \o <<"a">> : c \in {"a", "W", " ", "\n"}}

\* texts with an emoji that emojiCache has no image for
MissingEmojiTexts == {<<"M">>, <<"a", " ", "M">>, <<"M", " ", "a">>}

\* texts with words of different widths
MixedTexts ==
  {<<"W", "W", "W", " ", "a">>,
   <<"a", " ", "W", "W", "W", " ", "a">>,
   <<"W", "W", "W", "\n", "a", " ", "a">>}

\* a run of emoji whose widths at size EmojiRunSize, 10 * (12 * 1.2), are
\* 144 px in exact arithmetic and above 144 when added up in doubles; the
\* canvas of bratVidGenerator that leaves 144 px for a line and 20 px for
\* the lines
EmojiRun == 10
EmojiRunSize == 12
EmojiRunText == Rep("E", EmojiRun)
EmojiRunDims == <<184, 60>>

Texts ==
  ShortTexts \cup PatternTexts \cup LongTexts \cup MissingEmojiTexts \cup MixedTexts
    \cup {EmojiRunText}

\* a height whose budget, 157 - 2 * 20 = 117 px, is the height of TieLines lines
\* at size 18 in exact arithmetic, 5 * 18 * 1.3, and is below it in doubles
TieLines == 5
TieDims == <<512, 157>>

\* width and height of bratVidGenerator, in pixels
VidDims(t) ==
  (IF Len(t) < MaxLen
   THEN {<<512, 512>>, <<50, 512>>, <<512, 45>>, <<40, 512>>, <<512, 30>>}
   ELSE {<<512, 512>>, <<200, 300>>})
    \cup (IF Len(SplitLines(t)) = TieLines THEN {TieDims} ELSE {})
    \cup (IF t = EmojiRunText THEN {EmojiRunDims} ELSE {})

\* width and height that are not positive
BadDims == {<<0, 512>>, <<512, 0 - 1>>}

\* bgColor and textColor: the defaults, a short form, a colour name, a
\* seven-character string that is not hexadecimal
White == <<"#", "F", "F", "F", "F", "F", "F">>
Black == <<"#", "0", "0", "0", "0", "0", "0">>
BgColors == {White, <<"#", "F", "F", "F">>, <<"#", "G", "G", "G", "G", "G", "G">>}
TextColors == {Black, <<"r", "e", "d">>}

\* highlightWords: the default [] and a value that is not an array
HighlightArgs == {<<>>, NotAnArray}

\* the arguments tried with a text: every size with the default colours and
\* highlightWords, and for a short text each invalid argument on its own
VidArgs(t) ==
  (VidDims(t) \X {White} \X {Black} \X {<<>>})
    \cup (IF Len(t) < MaxLen
          THEN (BadDims \X {White} \X {Black} \X {<<>>})
                 \cup ({<<BratWidth, BratHeight>>} \X BgColors \X {Black} \X {<<>>})
                 \cup ({<<BratWidth, BratHeight>>} \X {White} \X TextColors \X {<<>>})
                 \cup ({<<BratWidth, BratHeight>>} \X {White} \X {Black} \X HighlightArgs)
          ELSE {})

BratArgs(t) == IF Len(t) < MaxLen THEN HighlightArgs ELSE {<<>>}

\* the calls of the three entry points
BratCalls == {c \in (Texts \cup {NotAString}) \X HighlightArgs : c[2] \in BratArgs(c[1])}
VidCalls ==
  UNION {{<<t, a>> : a \in VidArgs(t)} : t \in Texts \cup {NotAString}}

\* texts, font sizes and context fonts for direct calls of parseTextToSegments
MarkupPairs ==
  {<<<<"*">>, <<"*">>>>, <<<<"_">>, <<"_">>>>, <<<<"~">>, <<"~">>>>,
   <<<<"*", "_">>, <<"_", "*">>>>, <<<<"_", "*">>, <<"*", "_">>>>,
   <<<<Backquote, Backquote, Backquote>>, <<Backquote, Backquote, Backquote>>>>}
ParseTexts ==
  SeqsUpTo({"a", " ", "*", "E"}, MaxLen - 1)
    \cup {d[1] \o inner \o d[2] :
            d \in MarkupPairs, inner \in {<<"a">>, <<"a", " ", "a">>}}
    \cup {<<"a", "\n", "a">>, <<"a", " ", "*", "a", "*">>, <<"*", "a", "*", "a">>,
          <<" ", "a", "\t", " ", "E">>, NotAString}
ParseSizes == {0, 20}
\* fonts a context carries when it is passed again: left by a hard split of
\* rebuildLinesFromSegments, by the parse of an earlier line
CtxFonts == {Font("bold", 200), Font("plain", 20)}
ParseCalls == ParseTexts \X ParseSizes \X BOOLEAN

\* single source lines, font sizes and widths for direct calls of the packer
PackTexts == {t \in Texts : \A k \in 1..Len(t) : t[k] # "\n"}
PackSizes == {20, 200}
PackWidths == {50, 160, 260, 4960}
PackCalls ==
  (PackTexts \X PackSizes \X PackWidths)
    \cup {<<EmojiRunText, EmojiRunSize, (EmojiRunDims[1] - 2 * VidPadding) * 10>>}

\* ------------------------------------------------------------------------
\* State
\* ------------------------------------------------------------------------
VARIABLES
  pc,                    \* where the running call is, "idle" when none runs
  text,                  \* teks of bratGenerator, text of bratVidGenerator
  width, height,         \* canvas size in pixels
  tokens, i, frames,     \* bratVidGenerator: tokens, loop index, layouts rendered
  fontSize,              \* the scan variable
  finalLines, finalFontSize, lineHeight,
  lastKnownGoodSolution, \* <<>> for null, <<solution>> otherwise
  probes,                \* the candidate sizes the running search evaluated, in order
  image,                 \* bratGenerator: the layout rendered, <<>> before
  segments, maxWidth, packFontSize, idx, pack, packed,
                         \* rebuildLinesFromSegments: arguments, forEach index,
                         \* local state, returned lines
  bgColor, textColor, highlightWords,
                         \* the other arguments of the running call
  ctxFont,               \* ctx.font of the context handed to parseTextToSegments
                         \* (ctx in bratGenerator, tempCtx in bratVidGenerator)
  parsed,                \* the last call of parseTextToSegments, <<>> before
  drawn,                 \* the segments of finalLines renderSegment has drawn
  waiting                \* the calls suspended at an await, each with its locals

vars == <<pc, text, width, height, tokens, i, frames, fontSize, finalLines,
          finalFontSize, lineHeight, lastKnownGoodSolution, probes, image,
          segments, maxWidth, packFontSize, idx, pack, packed,
          bgColor, textColor, highlightWords, ctxFont, parsed, drawn, waiting>>

searchVars == <<fontSize, finalLines, finalFontSize, lineHeight,
                lastKnownGoodSolution, probes>>
vidVars == <<tokens, i, frames>>
packVars == <<segments, maxWidth, packFontSize, idx, pack, packed>>
callVars == <<text, width, height, bgColor, textColor, highlightWords>>
parseVars == <<ctxFont, parsed>>

Init ==
  /\ pc = "idle"
  /\ text = <<>>
  /\ width = 0
  /\ height = 0
  /\ tokens = <<>>
  /\ i = 0
  /\ frames = <<>>
  /\ fontSize = 0
  /\ finalLines = <<>>
  /\ finalFontSize = 0
  /\ lineHeight = 0
  /\ lastKnownGoodSolution = <<>>
  /\ probes = <<>>
  /\ image = <<>>
  /\ segments = <<>>
  /\ maxWidth = 0
  /\ packFontSize = 0
  /\ idx = 0
  /\ pack = PackStart
  /\ packed = <<>>
  /\ bgColor = White
  /\ textColor = Black
  /\ highlightWords = <<>>
  /\ ctxFont = FreshFont
  /\ parsed = <<>>
  /\ drawn = 0
  /\ waiting = {}

\* ------------------------------------------------------------------------
\* The event loop: a call runs until it reaches an await, other calls run
\* while it is suspended there
\* ------------------------------------------------------------------------
\* the locals of the running call
Locals ==
  [pc |-> pc, text |-> text, width |-> width, height |-> height,
   tokens |-> tokens, i |-> i, frames |-> frames, fontSize |-> fontSize,
   finalLines |-> finalLines, finalFontSize |-> finalFontSize,
   lineHeight |-> lineHeight, lastKnownGoodSolution |-> lastKnownGoodSolution,
   probes |-> probes, image |-> image, segments |-> segments,
   maxWidth |-> maxWidth, packFontSize |-> packFontSize, idx |-> idx,
   pack |-> pack, packed |-> packed, bgColor |-> bgColor,
   textColor |-> textColor, highlightWords |-> highlightWords,
   ctxFont |-> ctxFont, parsed |-> parsed, drawn |-> drawn]

\* no call is running
NoCall ==
  [pc |-> "idle", text |-> <<>>, width |-> 0, height |-> 0,
   tokens |-> <<>>, i |-> 0, frames |-> <<>>, fontSize |-> 0,
   finalLines |-> <<>>, finalFontSize |-> 0,
   lineHeight |-> 0, lastKnownGoodSolution |-> <<>>,
   probes |-> <<>>, image |-> <<>>, segments |-> <<>>,
   maxWidth |-> 0, packFontSize |-> 0, idx |-> 0,
   pack |-> PackStart, packed |-> <<>>, bgColor |-> White,
   textColor |-> Black, highlightWords |-> <<>>,
   ctxFont |-> FreshFont, parsed |-> <<>>, drawn |-> 0]

\* the running call becomes c
Load(c) ==
  /\ pc' = c.pc
  /\ text' = c.text
  /\ width' = c.width
  /\ height' = c.height
  /\ tokens' = c.tokens
  /\ i' = c.i
  /\ frames' = c.frames
  /\ fontSize' = c.fontSize
  /\ finalLines' = c.finalLines
  /\ finalFontSize' = c.finalFontSize
  /\ lineHeight' = c.lineHeight
  /\ lastKnownGoodSolution' = c.lastKnownGoodSolution
  /\ probes' = c.probes
  /\ image' = c.image
  /\ segments' = c.segments
  /\ maxWidth' = c.maxWidth
  /\ packFontSize' = c.packFontSize
  /\ idx' = c.idx
  /\ pack' = c.pack
  /\ packed' = c.packed
  /\ bgColor' = c.bgColor
  /\ textColor' = c.textColor
  /\ highlightWords' = c.highlightWords
  /\ ctxFont' = c.ctxFont
  /\ parsed' = c.parsed
  /\ drawn' = c.drawn

\* the awaits: of emojiImageByBrandPromise, of loadImage inside renderSegment,
\* of renderSegment when it has drawn and when it has thrown, of
\* sharp(buffer).blur(3).toBuffer()
AwaitPcs ==
  {"brat_await", "brat_load", "brat_drawn", "brat_threw", "brat_blur",
   "vid_await", "vid_load", "vid_drawn", "vid_threw", "vid_blur"}

\* where a call goes on after an await
Resumed(p) ==
  CASE p = "brat_await" -> "brat_init"
    [] p = "brat_load" -> "brat_loaded"
    [] p = "brat_drawn" -> "brat_render"
    [] p = "brat_threw" -> "error"
    [] p = "brat_blur" -> "brat_return"
    [] p = "vid_await" -> "vid_init"
    [] p = "vid_load" -> "vid_loaded"
    [] p = "vid_drawn" -> "vid_render"
    [] p = "vid_threw" -> "error"
    [] p = "vid_blur" -> "vid_push"

\* the texts of the calls that are started while another call is suspended
OverlapTexts ==
  {<<"a", " ", "E">>, <<"W", " ", "W">>, <<"a", " ", "a">>, <<"W">>}

\* a call with one of these texts, the default arguments and a 512 x 512 canvas
Overlaps(c) ==
  /\ c.text \in OverlapTexts
  /\ c.width = BratWidth
  /\ c.height = BratHeight
  /\ c.bgColor = White
  /\ c.textColor = Black
  /\ c.highlightWords = <<>>

\* a call can start when no call is running; while other calls are suspended
\* the calls started are those of OverlapTexts, at most MaxCalls at a time and
\* each text once
MayStart(t, w, h, bg, fg, hw) ==
  \/ waiting = {}
  \/ /\ Cardinality(waiting) < MaxCalls
     /\ Overlaps([text |-> t, width |-> w, height |-> h, bgColor |-> bg,
                  textColor |-> fg, highlightWords |-> hw])
     /\ \A c \in waiting : Overlaps(c) /\ c.text # t

\* await: the running call is suspended and the event loop is free
Yield ==
  /\ pc \in AwaitPcs
  /\ waiting' = waiting \cup {Locals}
  /\ Load(NoCall)

\* the awaited promise is settled: a suspended call goes on
Resume(c) ==
  /\ pc = "idle"
  /\ c \in waiting
  /\ waiting' = waiting \ {c}
  /\ Load([c EXCEPT !.pc = Resumed(c.pc)])

\* the promise of the running call is settled (return or throw): its locals
\* are gone
Return ==
  /\ pc \in {"done", "error"}
  /\ Load(NoCall)
  /\ UNCHANGED waiting

\* ------------------------------------------------------------------------
\* bratGenerator
\* ------------------------------------------------------------------------
\* the argument checks, up to await emojiImageByBrandPromise
CallBratGenerator(teks, hw) ==
  /\ pc = "idle"
  /\ MayStart(teks, BratWidth, BratHeight, White, Black, hw)
  /\ text' = teks
  /\ width' = BratWidth
  /\ height' = BratHeight
  /\ highlightWords' = hw
  /\ pc' = IF BratArgsInvalid(teks, hw) THEN "error" ELSE "brat_await"
  /\ UNCHANGED <<bgColor, textColor, searchVars, vidVars, packVars, image,
                 parseVars, drawn, waiting>>

\* the canvas, its context and the locals of the scan
BratInit ==
  /\ pc = "brat_init"
  /\ ctxFont' = FreshFont
  /\ fontSize' = FontCeiling
  /\ finalLines' = <<>>
  /\ finalFontSize' = 0
  /\ lineHeight' = 0
  /\ lastKnownGoodSolution' = <<>>
  /\ probes' = <<>>
  /\ pc' = "brat_scan"
  /\ UNCHANGED <<callVars, vidVars, packVars, image, parsed, drawn, waiting>>

\* one iteration of while (fontSize > 10)
BratScanStep ==
  /\ pc = "brat_scan"
  /\ fontSize > FontFloor
  /\ \E r \in {BratLinesOnCtx(text, fontSize, ctxFont)} :
       LET currentLineHeight == LineHeightTenths * fontSize
           fits == HeightFits(Len(r.lines), fontSize,
                              height - 2 * BratVerticalPadding)
           stop == fits /\ BreaksScan(wordCountOf(text), Len(r.lines))
       IN /\ probes' = Append(probes, fontSize)
          /\ ctxFont' = r.font
          /\ lastKnownGoodSolution' =
               IF fits
               THEN <<[lines |-> r.lines, fontSize |-> fontSize,
                       lineHeight |-> currentLineHeight]>>
               ELSE lastKnownGoodSolution
          /\ IF stop
             THEN /\ finalLines' = r.lines
                  /\ finalFontSize' = fontSize
                  /\ lineHeight' = currentLineHeight
                  /\ fontSize' = fontSize
                  /\ pc' = "brat_final"
             ELSE /\ fontSize' = NextCandidate(fontSize)
                  /\ UNCHANGED <<finalLines, finalFontSize, lineHeight, pc>>
  /\ UNCHANGED <<callVars, vidVars, packVars, image, parsed, drawn, waiting>>

\* the loop condition fails: no candidate ended the scan
BratScanExit ==
  /\ pc = "brat_scan"
  /\ fontSize <= FontFloor
  /\ pc' = "brat_final"
  /\ UNCHANGED <<callVars, vidVars, packVars, searchVars, image, parseVars,
                 drawn, waiting>>

\* after the loop: the lastKnownGoodSolution fallback, then the single-word
\* branch, which measures the word on ctx at the reference size
BratFinal ==
  /\ pc = "brat_final"
  /\ LET useLast == Len(finalLines) = 0 /\ lastKnownGoodSolution # <<>>
         lines1 == IF useLast THEN lastKnownGoodSolution[1].lines ELSE finalLines
         size1 == IF useLast THEN lastKnownGoodSolution[1].fontSize ELSE finalFontSize
         height1 == IF useLast THEN lastKnownGoodSolution[1].lineHeight ELSE lineHeight
     IN /\ finalLines' = lines1
        /\ IF IsSingleWord(lines1)
           THEN /\ finalFontSize' = AnalyticSize(lines1[1][1].content)
                /\ lineHeight' = LineHeightTenths * AnalyticSize(lines1[1][1].content)
                /\ ctxFont' = Font("plain", ReferenceSize)
           ELSE /\ finalFontSize' = size1
                /\ lineHeight' = height1
                /\ UNCHANGED ctxFont
  /\ drawn' = 0
  /\ pc' = "brat_render"
  /\ UNCHANGED <<callVars, vidVars, packVars, fontSize, lastKnownGoodSolution,
                 probes, image, parsed, waiting>>

\* renderSegment is called with the next segment: it assigns ctx.font, then
\* throws on an emoji without an image, awaits loadImage for an emoji with
\* one, draws any other segment and returns
BratDraw ==
  /\ pc = "brat_render"
  /\ drawn < Len(DrawOrder(finalLines))
  /\ ctxFont' = RenderFont(DrawOrder(finalLines)[drawn + 1], finalFontSize)
  /\ IF DrawThrows(DrawOrder(finalLines)[drawn + 1])
     THEN pc' = "brat_threw" /\ UNCHANGED drawn
     ELSE IF DrawOrder(finalLines)[drawn + 1].type = "emoji"
     THEN pc' = "brat_load" /\ UNCHANGED drawn
     ELSE pc' = "brat_drawn" /\ drawn' = drawn + 1
  /\ UNCHANGED <<callVars, vidVars, packVars, searchVars, image, parsed, waiting>>

\* the image of the emoji is loaded: renderSegment draws it and returns
BratDrawImage ==
  /\ pc = "brat_loaded"
  /\ drawn' = drawn + 1
  /\ pc' = "brat_drawn"
  /\ UNCHANGED <<callVars, vidVars, packVars, searchVars, image, parseVars, waiting>>

\* every segment is drawn: canvas.toBuffer, then await sharp(buffer).blur(3)
BratBlur ==
  /\ pc = "brat_render"
  /\ drawn = Len(DrawOrder(finalLines))
  /\ pc' = "brat_blur"
  /\ UNCHANGED <<callVars, vidVars, packVars, searchVars, image, parseVars,
                 drawn, waiting>>

\* return blurredBuffer: the image of the layout that was drawn
BratReturn ==
  /\ pc = "brat_return"
  /\ image' = <<[fontSize |-> finalFontSize, lineHeight |-> lineHeight,
                 lines |-> finalLines,
                 drawn |-> DrawLines(finalLines, BratMargin * 10,
                                     (width - 2 * BratMargin) * 10)]>>
  /\ pc' = "done"
  /\ UNCHANGED <<callVars, vidVars, packVars, searchVars, parseVars, drawn, waiting>>

\* ------------------------------------------------------------------------
\* bratVidGenerator
\* ------------------------------------------------------------------------
\* the argument checks, up to await emojiImageByBrandPromise
CallBratVidGenerator(t, w, h, bg, fg, hw) ==
  /\ pc = "idle"
  /\ MayStart(t, w, h, bg, fg, hw)
  /\ text' = t
  /\ width' = w
  /\ height' = h
  /\ bgColor' = bg
  /\ textColor' = fg
  /\ highlightWords' = hw
  /\ pc' = IF VidArgsInvalid(t, w, h, bg, fg, hw) THEN "error" ELSE "vid_await"
  /\ UNCHANGED <<searchVars, vidVars, packVars, image, parseVars, drawn, waiting>>

\* tempCtx, the tokens and frames
VidInit ==
  /\ pc = "vid_init"
  /\ ctxFont' = FreshFont
  /\ frames' = <<>>
  /\ IF Tokens(text) = <<>>
     THEN /\ pc' = "error"
          /\ UNCHANGED <<tokens, i>>
     ELSE /\ pc' = "vid_frame"
          /\ tokens' = Tokens(text)
          /\ i' = 1
  /\ UNCHANGED <<callVars, searchVars, packVars, image, parsed, drawn, waiting>>

\* for (i ...): a prefix that is blank after trimming is skipped
VidSkipFrame ==
  /\ pc = "vid_frame"
  /\ i <= Len(tokens)
  /\ Trim(PrefixText(tokens, i)) = <<>>
  /\ i' = i + 1
  /\ UNCHANGED <<pc, callVars, tokens, frames, searchVars, packVars, image,
                 parseVars, drawn, waiting>>

\* for (i ...): the search of frame i starts
VidStartFrame ==
  /\ pc = "vid_frame"
  /\ i <= Len(tokens)
  /\ Trim(PrefixText(tokens, i)) # <<>>
  /\ fontSize' = FontCeiling
  /\ finalLines' = <<>>
  /\ lineHeight' = 0
  /\ probes' = <<>>
  /\ pc' = "vid_scan"
  /\ UNCHANGED <<callVars, vidVars, packVars, finalFontSize,
                 lastKnownGoodSolution, image, parseVars, drawn, waiting>>

\* one iteration of while (fontSize > 10) of frame i
VidScanStep ==
  /\ pc = "vid_scan"
  /\ fontSize > FontFloor
  /\ probes' = Append(probes, fontSize)
  /\ IF rebuildThrows((width - 2 * VidPadding) * 10, fontSize)
     THEN /\ pc' = "error"
          /\ ctxFont' = FontAtThrow(PrefixText(tokens, i), fontSize)
          /\ UNCHANGED <<fontSize, finalLines, lineHeight>>
     ELSE \E r \in {VidLinesOnCtx(PrefixText(tokens, i), fontSize, width, ctxFont)} :
             /\ ctxFont' = r.font
             /\ IF HeightFits(Len(r.lines), fontSize, height - 2 * VidPadding)
                THEN /\ finalLines' = r.lines
                     /\ lineHeight' = LineHeightTenths * fontSize
                     /\ fontSize' = fontSize
                     /\ pc' = "vid_render"
                ELSE /\ fontSize' = NextCandidate(fontSize)
                     /\ UNCHANGED <<finalLines, lineHeight, pc>>
  /\ UNCHANGED <<callVars, vidVars, packVars, finalFontSize,
                 lastKnownGoodSolution, image, parsed, drawn, waiting>>

\* the loop condition fails: no candidate was accepted
VidScanExit ==
  /\ pc = "vid_scan"
  /\ fontSize <= FontFloor
  /\ pc' = "vid_render"
  /\ UNCHANGED <<callVars, vidVars, packVars, searchVars, image, parseVars,
                 drawn, waiting>>

\* renderSegment is called with the next segment of frame i on the context of
\* the canvas of the frame: it throws on an emoji without an image, awaits
\* loadImage for an emoji with one, draws any other segment and returns
VidDraw ==
  /\ pc = "vid_render"
  /\ drawn < Len(DrawOrder(finalLines))
  /\ IF DrawThrows(DrawOrder(finalLines)[drawn + 1])
     THEN pc' = "vid_threw" /\ UNCHANGED drawn
     ELSE IF DrawOrder(finalLines)[drawn + 1].type = "emoji"
     THEN pc' = "vid_load" /\ UNCHANGED drawn
     ELSE pc' = "vid_drawn" /\ drawn' = drawn + 1
  /\ UNCHANGED <<callVars, vidVars, packVars, searchVars, image, parseVars, waiting>>

\* the image of the emoji is loaded: renderSegment draws it and returns
VidDrawImage ==
  /\ pc = "vid_loaded"
  /\ drawn' = drawn + 1
  /\ pc' = "vid_drawn"
  /\ UNCHANGED <<callVars, vidVars, packVars, searchVars, image, parseVars, waiting>>

\* every segment of frame i is drawn: canvas.toBuffer, then await
\* sharp(buffer).blur(3)
VidBlur ==
  /\ pc = "vid_render"
  /\ drawn = Len(DrawOrder(finalLines))
  /\ pc' = "vid_blur"
  /\ UNCHANGED <<callVars, vidVars, packVars, searchVars, image, parseVars,
                 drawn, waiting>>

\* frames.push(blurredBuffer), i++
VidPush ==
  /\ pc = "vid_push"
  /\ frames' = Append(frames,
                      [i |-> i, fontSize |-> fontSize,
                       lineHeight |-> lineHeight, lines |-> finalLines,
                       drawn |-> DrawLines(finalLines, VidPadding * 10,
                                           (width - 2 * VidPadding) * 10)])
  /\ i' = i + 1
  /\ drawn' = 0
  /\ pc' = "vid_frame"
  /\ UNCHANGED <<callVars, tokens, packVars, searchVars, image, parseVars, waiting>>

\* return frames
VidReturn ==
  /\ pc = "vid_frame"
  /\ i > Len(tokens)
  /\ pc' = "done"
  /\ UNCHANGED <<callVars, vidVars, packVars, searchVars, image, parseVars,
                 drawn, waiting>>

\* ------------------------------------------------------------------------
\* rebuildLinesFromSegments, one segment at a time
\* ------------------------------------------------------------------------
\* the call, with the segments of one source line measured at size fs
CallRebuild(t, fs, mw) ==
  /\ pc = "idle"
  /\ waiting = {}
  /\ segments' = parseTextToSegments(t, fs)
  /\ maxWidth' = mw
  /\ packFontSize' = fs
  /\ pack' = PackStart
  /\ idx' = 1
  /\ packed' = <<>>
  /\ pc' = IF rebuildThrows(mw, fs) THEN "error" ELSE "pack"
  /\ UNCHANGED <<callVars, vidVars, searchVars, image, parseVars, drawn, waiting>>

\* the forEach callback on segments[idx]; a hard split assigns ctx.font
PackStep ==
  /\ pc = "pack"
  /\ idx <= Len(segments)
  /\ pack' = PackSegment(pack, segments[idx], maxWidth, packFontSize)
  /\ ctxFont' = IF ~SkipsWhitespace(segments[idx], Len(pack.currentLine))
                   /\ NeedsSplit(segments[idx], maxWidth)
                THEN Font(getFontForSegment(segments[idx].type), packFontSize)
                ELSE ctxFont
  /\ idx' = idx + 1
  /\ UNCHANGED <<pc, callVars, vidVars, searchVars, image, segments, maxWidth,
                 packFontSize, packed, parsed, drawn, waiting>>

\* the last line is pushed and lines returned
PackReturn ==
  /\ pc = "pack"
  /\ idx > Len(segments)
  /\ packed' = PackResult(pack)
  /\ pc' = "packed"
  /\ UNCHANGED <<callVars, vidVars, searchVars, image, segments, maxWidth,
                 packFontSize, idx, pack, parseVars, drawn, waiting>>

\* ------------------------------------------------------------------------
\* parseTextToSegments called on a context its caller keeps
\* ------------------------------------------------------------------------
\* one call of parseTextToSegments(t, ctx, fs) on a context that carries font
\* f: of the code, or of the older parser when old
CallParse(t, f, fs, old) ==
  /\ pc \in {"idle", "ctx_idle"}
  /\ waiting = {}
  /\ \E r \in {IF parseThrows(t, fs)
               THEN [events |-> <<>>, font |-> f]
               ELSE parseTrace(t, 1, fs, f, old)} :
       /\ ctxFont' = r.font
       /\ parsed' = <<[old |-> old, text |-> t, fontSize |-> fs,
                        thrown |-> parseThrows(t, fs),
                        events |-> r.events,
                        segments |-> EventSegments(r.events, fs)]>>
  /\ pc' = IF parseThrows(t, fs) THEN "error" ELSE "parsed"
  /\ UNCHANGED <<callVars, vidVars, searchVars, packVars, image, drawn, waiting>>

\* the segments are returned to the caller
ParseReturn ==
  /\ pc = "parsed"
  /\ pc' = "ctx_idle"
  /\ UNCHANGED <<callVars, vidVars, searchVars, packVars, image, parseVars,
                 drawn, waiting>>

Next ==
  \/ \E c \in BratCalls : CallBratGenerator(c[1], c[2])
  \/ BratInit
  \/ BratScanStep
  \/ BratScanExit
  \/ BratFinal
  \/ BratDraw
  \/ BratDrawImage
  \/ BratBlur
  \/ BratReturn
  \/ \E c \in VidCalls :
        CallBratVidGenerator(c[1], c[2][1][1], c[2][1][2], c[2][2], c[2][3], c[2][4])
  \/ VidInit
  \/ VidSkipFrame
  \/ VidStartFrame
  \/ VidScanStep
  \/ VidScanExit
  \/ VidDraw
  \/ VidDrawImage
  \/ VidBlur
  \/ VidPush
  \/ VidReturn
  \/ \E c \in PackCalls : CallRebuild(c[1], c[2], c[3])
  \/ PackStep
  \/ PackReturn
  \/ \E c \in ParseCalls : \E f \in CtxFonts \cup {ctxFont} :
        CallParse(c[1], f, c[2], c[3])
  \/ ParseReturn
  \/ Yield
  \/ \E c \in waiting : Resume(c)
  \/ Return

Spec == Init /\ [][Next]_vars

\* ------------------------------------------------------------------------
\* Properties
\* ------------------------------------------------------------------------
\* the candidate sizes of the scan: 200, 198, ..., 12
ScanSizes ==
  {f \in (FontFloor + 1)..FontCeiling : (FontCeiling - f) % FontStep = 0}

\* 200, 198, ..., s
ScanDownTo(s) ==
  [k \in 1..((FontCeiling - s) \div FontStep + 1) |-> FontCeiling - FontStep * (k - 1)]

BratAvailable == (BratWidth - 2 * BratMargin) * 10
VidAvailable == (width - 2 * VidPadding) * 10
BratBudget == (height - 2 * BratVerticalPadding) * 10
VidBudget == (height - 2 * VidPadding) * 10

\* the scan of the running search ended on a break
Accepted == fontSize > FontFloor

LinesFit(lines, available) ==
  \A k \in 1..Len(lines) : SumWidths(lines[k]) <= available

\* the height test of bratGenerator and of frame i of bratVidGenerator at size f
BratPasses(f) ==
  HeightFits(Len(BratLines(text, f)), f, height - 2 * BratVerticalPadding)
VidPasses(f) ==
  HeightFits(Len(VidLines(PrefixText(tokens, i), f, width)), f, height - 2 * VidPadding)

\* the sizes at which bratGenerator gets a two-line layout within the height budget
TwoLineSizes == {f \in ScanSizes : Len(BratLines(text, f)) = 2 /\ BratPasses(f)}
PassingSizes == {f \in ScanSizes : BratPasses(f)}

\* a text that is one plain word
IsPlainWord(t) == t # <<>> /\ \A k \in 1..Len(t) : t[k] \in Letters

\* C1 (as claimed): whenever the scan of bratGenerator or bratVidGenerator accepts a
\* candidate size, every line of the accepted layout has a sum of segment
\* widths of at most availableWidth.
C1_AcceptedLinesWithinWidth ==
  /\ (pc = "brat_final" /\ Accepted) => LinesFit(finalLines, BratAvailable)
  /\ (pc = "vid_render" /\ Accepted) => LinesFit(finalLines, VidAvailable)

\* C2 (as claimed): every layout handed to rendering satisfies
\* lines.length * lineHeight <= height - 2 * padding.
C2_HeightWithinBudgetAlways ==
  /\ pc = "brat_render" => Len(finalLines) * lineHeight <= BratBudget
  /\ pc = "vid_render" => Len(finalLines) * lineHeight <= VidBudget

\* C2 (amended): every layout handed to rendering satisfies
\* lines.length * lineHeight <= height - 2 * padding whenever that budget is
\* not negative, the lastKnownGoodSolution fallback and the single-word
\* branch included.
C2_HeightWithinBudget ==
  /\ (pc = "brat_render" /\ BratBudget >= 0) => Len(finalLines) * lineHeight <= BratBudget
  /\ (pc = "vid_render" /\ VidBudget >= 0) => Len(finalLines) * lineHeight <= VidBudget

\* a four-word text whose scan never broke is rendered from lastKnownGoodSolution
C2_Witness ==
  /\ pc = "brat_render"
  /\ ~Accepted
  /\ lastKnownGoodSolution # <<>>
  /\ Len(finalLines) > 2
  /\ lineHeight > 0

\* the last candidate the scan evaluates
LastCandidate == FontFloor + FontStep

\* C3 (as claimed): when no size passes the acceptance test and the text has
\* something to lay out, the layout handed to rendering is the one of the last
\* scanned candidate: it has at least one line and a positive font size.
C3_FloorLayoutRendered ==
  /\ (pc = "brat_render" /\ ~Accepted /\ lastKnownGoodSolution = <<>>
        /\ BratLines(text, LastCandidate) # <<>>) =>
       Len(finalLines) >= 1 /\ finalFontSize > 0
  /\ (pc = "vid_render" /\ ~Accepted
        /\ VidLines(PrefixText(tokens, i), LastCandidate, width) # <<>>) =>
       Len(finalLines) >= 1 /\ fontSize > 0

\* C4: in bratVidGenerator, and in bratGenerator when wordCount is not 4, the
\* accepted size is the largest scanned size that passes the height test: the
\* sizes probed are exactly 200, 198, ... down to the accepted size, every one
\* above it failed the test, and it passes.
C4_FirstPassingSizeWins ==
  /\ (pc = "vid_render" /\ Accepted) =>
       /\ probes = ScanDownTo(fontSize)
       /\ VidPasses(fontSize)
       /\ \A f \in ScanSizes : f > fontSize => ~VidPasses(f)
  /\ (pc \in {"brat_final", "brat_render"} /\ Accepted /\ wordCountOf(text) # 4) =>
       /\ probes = ScanDownTo(fontSize)
       /\ BratPasses(fontSize)
       /\ \A f \in ScanSizes : f > fontSize => ~BratPasses(f)

\* a three-word text accepted at a size below sizes that failed
C4_Witness ==
  /\ pc = "brat_final"
  /\ Accepted
  /\ wordCountOf(text) = 3
  /\ fontSize < FontCeiling - FontStep

\* C5 (as claimed): no line returned by rebuildLinesFromSegments starts with a
\* whitespace segment.
C5_NoLeadingWhitespace ==
  pc = "packed" =>
    \A k \in 1..Len(packed) : packed[k] # <<>> => packed[k][1].type # "whitespace"

\* C6: in bratGenerator, when wordCount is 4 and some scanned size passes the
\* height test with exactly two lines, the final layout has exactly two lines
\* and the largest such size.
C6_FourWordsTwoLines ==
  (pc = "brat_render" /\ wordCountOf(text) = 4 /\ TwoLineSizes # {}) =>
    /\ Len(finalLines) = 2
    /\ finalFontSize = MaxOf(TwoLineSizes)
    /\ finalLines = BratLines(text, MaxOf(TwoLineSizes))

\* four words laid out on two lines after larger sizes passed with more lines
C6_Witness ==
  /\ pc = "brat_render"
  /\ wordCountOf(text) = 4
  /\ Len(finalLines) = 2
  /\ \E f \in PassingSizes : f > finalFontSize

\* C7 (as claimed): in bratGenerator, when wordCount is 4 and no scanned size
\* yields two lines within the height budget, the final layout is the one of
\* the largest scanned size that passes the height test.
C7_FourWordsNormalWinner ==
  (pc = "brat_render" /\ wordCountOf(text) = 4 /\ TwoLineSizes = {}
     /\ PassingSizes # {}) =>
    finalLines = BratLines(text, MaxOf(PassingSizes))

\* floor(min((height - 2 * verticalPadding) / 1.3, (availableWidth / widthAt200) * 200)),
\* characterised without division
IsAnalyticSize(n, word) ==
  LET w200 == measureText(word, "plain", ReferenceSize)
      within(m) == m * LineHeightTenths <= BratBudget /\ m * w200 <= BratAvailable * ReferenceSize
  IN within(n) /\ ~within(n + 1)

\* C8 (as claimed): for every text that is one plain word, the final layout of
\* bratGenerator is one line holding that one segment and the final font size
\* is the analytic one.
C8_SingleWordAlwaysAnalytic ==
  (pc = "brat_render" /\ IsPlainWord(text)) =>
    /\ Len(finalLines) = 1
    /\ Len(finalLines[1]) = 1
    /\ finalLines[1][1].content = text
    /\ IsAnalyticSize(finalFontSize, text)

\* C8 (amended): for every text that is one plain word not wider than
\* availableWidth at the size the scan accepts, the final layout of
\* bratGenerator is one line holding that one segment and the final font size
\* is floor(min((height - 2 * verticalPadding) / 1.3,
\* (availableWidth / widthAt200) * 200)).
C8_SingleWordAnalytic ==
  (pc = "brat_render" /\ IsPlainWord(text) /\ Accepted
     /\ measureText(text, "plain", fontSize) <= BratAvailable) =>
    /\ Len(finalLines) = 1
    /\ Len(finalLines[1]) = 1
    /\ finalLines[1][1].content = text
    /\ finalLines[1][1].type = "text"
    /\ IsAnalyticSize(finalFontSize, text)
    /\ lineHeight = LineHeightTenths * finalFontSize

\* a single word whose size is set by its width, outside the scanned sizes
C8_Witness ==
  /\ pc = "brat_render"
  /\ IsPlainWord(text)
  /\ Len(finalLines) = 1
  /\ finalFontSize \notin ScanSizes
  /\ finalFontSize * LineHeightTenths + LineHeightTenths <= BratBudget

\* the step of rebuildLinesFromSegments that handles segments[idx]
IsPackStep == pc = "pack" /\ idx <= Len(segments) /\ idx' = idx + 1

Oversized(segment) ==
  segment.type \notin {"whitespace", "emoji"} /\ segment.width > maxWidth

\* the lines the step has made out of its segment alone: those pushed after
\* the line that was open before, and the line left open
PiecesOfStep ==
  SubSeq(pack'.lines,
         Len(pack.lines) + (IF pack.currentLine # <<>> THEN 1 ELSE 0) + 1,
         Len(pack'.lines))
  \o <<pack'.currentLine>>

PiecesWithin(pieces, type) ==
  \A k \in 1..Len(pieces) :
    /\ Len(pieces[k]) = 1
    /\ pieces[k][1].type = type
    /\ pieces[k][1].width =
         measureText(pieces[k][1].content, getFontForSegment(type), packFontSize)
    /\ pieces[k][1].width <= maxWidth

\* C9 (as claimed): every segment that is neither whitespace nor emoji and is
\* wider than maxWidth is split into at least two pieces on different lines,
\* each of measured width <= maxWidth.
C9_OversizedAlwaysSplit ==
  [][(IsPackStep /\ Oversized(segments[idx])) =>
       /\ Len(PiecesOfStep) >= 2
       /\ PiecesWithin(PiecesOfStep, segments[idx].type)]_vars

EachCharFits(segment) ==
  \A k \in 1..Len(segment.content) :
    measureText(<<segment.content[k]>>, getFontForSegment(segment.type), packFontSize)
      <= maxWidth

\* C9 (amended): every segment that is neither whitespace nor emoji, is wider
\* than maxWidth and has no single character wider than maxWidth is split into
\* at least two pieces on different lines, each of measured width <= maxWidth.
C9_OversizedSplit ==
  [][(IsPackStep /\ Oversized(segments[idx]) /\ EachCharFits(segments[idx])) =>
       /\ Len(PiecesOfStep) >= 2
       /\ PiecesWithin(PiecesOfStep, segments[idx].type)]_vars

\* an oversized word has just been split after other segments were packed
C9_Witness ==
  /\ pc = "pack"
  /\ idx > 2
  /\ Oversized(segments[idx - 1])
  /\ EachCharFits(segments[idx - 1])
  /\ Len(pack.lines) >= 2
  /\ Len(pack.currentLine) = 1

\* currentLineWidth + segment.width for the segment the step handles, as the
\* code adds them
LineWidthWith ==
  DoublePlus(pack.currentLineWidth, WidthOf(segments[idx], packFontSize))

\* C10: a segment that exactly fills the rest of a non-empty line is appended
\* to it and starts no new line; a step starts a new line only when
\* currentLineWidth + segment.width > maxWidth.
C10_TieStaysOnLine ==
  [][IsPackStep =>
       /\ (pack.currentLine # <<>> /\ LineWidthWith = DoubleOfTenths(maxWidth)) =>
            /\ pack'.lines = pack.lines
            /\ pack'.currentLine = Append(pack.currentLine, segments[idx])
       /\ Len(pack'.lines) > Len(pack.lines) =>
            ~DoubleLessEq(LineWidthWith, DoubleOfTenths(maxWidth))]_vars

\* a line that is exactly full after a segment was appended to it
C10_Witness ==
  /\ pc = "pack"
  /\ idx > 2
  /\ Len(pack.currentLine) >= 2
  /\ pack.currentLine[Len(pack.currentLine)] = segments[idx - 1]
  /\ pack.currentLineWidth = DoubleOfTenths(maxWidth)

\* the content fields of a segment sequence, concatenated in order
ContentOf(segs) == Flatten([k \in 1..Len(segs) |-> segs[k].content])

\* a call of the parser of the code has returned
ParsedByCode == pc = "parsed" /\ ~parsed[1].old

\* C12: in the code and in the older parser, two calls with the same text and
\* the same fontSize return the same segments (type, content and width),
\* whatever font the context held when each call started.
C12_SameInputsSameSegments ==
  [][(/\ pc' = "parsed"
      /\ parsed # <<>>
      /\ ~parsed[1].thrown
      /\ parsed'[1].old = parsed[1].old
      /\ parsed'[1].text = parsed[1].text
      /\ parsed'[1].fontSize = parsed[1].fontSize)
       => parsed'[1].segments = parsed[1].segments]_vars

\* C12 for the parser of the code alone
C12_CodeSameInputsSameSegments ==
  [][(/\ pc' = "parsed"
      /\ parsed # <<>>
      /\ ~parsed[1].thrown
      /\ ~parsed[1].old
      /\ ~parsed'[1].old
      /\ parsed'[1].text = parsed[1].text
      /\ parsed'[1].fontSize = parsed[1].fontSize)
       => parsed'[1].segments = parsed[1].segments]_vars

\* the measurements of the last call: every segment but the emoji
Measured == {k \in 1..Len(parsed[1].events) : parsed[1].events[k].type # "emoji"}

\* C20 (as claimed): every measurement of parseTextToSegments is made with
\* ctx.font set to the style of the measured segment's own kind at the given
\* fontSize, and on return ctx.font is the plain style at that fontSize.
C20_FontOfSegmentKind ==
  ParsedByCode =>
    /\ \A k \in Measured :
         parsed[1].events[k].font =
           Font(getFontForSegment(parsed[1].events[k].type), parsed[1].fontSize)
    /\ ctxFont = Font("plain", parsed[1].fontSize)

\* C20 (amended): every measurement of parseTextToSegments is made with
\* ctx.font set to the style of the markup span the measured run was matched
\* in, at the given fontSize (plain outside a span and in a strikethrough
\* span; a whitespace run inside a span is measured under the style of the
\* span), never a font left over from before, and on return ctx.font is the
\* plain style at that fontSize.
C20_FontOfSpan ==
  ParsedByCode =>
    /\ \A k \in Measured :
         parsed[1].events[k].font =
           Font(getFontForSegment(parsed[1].events[k].span), parsed[1].fontSize)
    /\ ctxFont = Font("plain", parsed[1].fontSize)

\* a plain word measured after a bold span: each under its own font
C20_Witness ==
  /\ ParsedByCode
  /\ parsed[1].text = <<"*", "a", "*", "a">>
  /\ Len(parsed[1].events) = 2
  /\ parsed[1].events[1].font = Font("bold", parsed[1].fontSize)
  /\ parsed[1].events[2].font = Font("plain", parsed[1].fontSize)
  /\ ctxFont = Font("plain", parsed[1].fontSize)

\* where a call of bratGenerator or bratVidGenerator that has passed the
\* argument checks can be
CallPcs ==
  (AwaitPcs \cup {Resumed(p) : p \in AwaitPcs}
     \cup {"brat_scan", "brat_final", "vid_frame", "vid_scan"}) \ {"error"}

\* the arguments of the running call that bratVidGenerator and bratGenerator
\* must refuse
ArgsRefused ==
  \/ text = NotAString
  \/ Trim(text) = <<>>
  \/ highlightWords = NotAnArray
  \/ width <= 0
  \/ height <= 0
  \/ ~IsHexColor(bgColor)
  \/ ~IsHexColor(textColor)

\* C17: bratVidGenerator and bratGenerator called with an invalid argument
\* throw before any candidate size is laid out and before any frame or image
\* is produced; parseTextToSegments called with a text that is not a string or
\* with fontSize <= 0 throws and produces no segment.
C17_InvalidArgumentsRejected ==
  /\ (pc \in CallPcs \cup {"done"} \/ (pc = "error" /\ parsed = <<>> /\ segments = <<>>))
       => (ArgsRefused =>
             /\ pc = "error"
             /\ probes = <<>>
             /\ frames = <<>>
             /\ image = <<>>)
  /\ (parsed # <<>> /\ (parsed[1].text = NotAString \/ parsed[1].fontSize <= 0))
       => (pc = "error" /\ parsed[1].events = <<>> /\ parsed[1].segments = <<>>)

\* bratVidGenerator has refused a colour that is not #RRGGBB
C17_Witness ==
  /\ pc = "error"
  /\ text # NotAString
  /\ Trim(text) # <<>>
  /\ width > 0
  /\ height > 0
  /\ ~IsHexColor(bgColor)
  /\ probes = <<>>
  /\ frames = <<>>

\* the text tokenizes to no segment other than whitespace
NoContent(t) == NonWhitespace(parseTextToSegments(t, FontCeiling)) = <<>>

\* C13: bratGenerator and bratVidGenerator never return an image or frames
\* for a text that tokenizes to zero non-whitespace segments: they fail.
C13_EmptyContentFails == pc = "done" => ~NoContent(text)

\* every emoji of the text has an image
ImagesAvailable == \A k \in 1..Len(text) : text[k] \in EmojiChars => text[k] \in EmojiCached

\* C14: bratVidGenerator, called with a non-blank text (here one that has
\* content to lay out), positive width and height and #RRGGBB colours, with
\* every emoji image available, raises no error.
C14_TotalForValidInput ==
  (tokens # <<>> /\ ImagesAvailable /\ ~NoContent(text)) => pc # "error"

\* the i of the frames, in the order of the array
FrameIndices == [k \in 1..Len(frames) |-> frames[k].i]

\* the prefix of the first j tokens is not blank: tokens are runs of
\* non-whitespace or single line breaks, joined by spaces
SolidPrefix(j) == \E k \in 1..j : tokens[k] # <<"\n">>

\* C15: the frames of bratVidGenerator are, in increasing order of i, exactly
\* one frame for each i whose prefix is not blank after trimming; while frame
\* i is searched or drawn the array holds exactly the frames of the smaller
\* i, and at the return those of every i in 1..tokens.length.
C15_OneFramePerSolidPrefix ==
  tokens # <<>> =>
    /\ FrameIndices = SortedSeq({j \in 1..(i - 1) : SolidPrefix(j)})
    /\ pc = "done" => i = Len(tokens) + 1

\* frames were returned for a text whose first prefix is blank
C15_Witness ==
  /\ pc = "done"
  /\ tokens # <<>>
  /\ ~SolidPrefix(1)
  /\ Len(frames) >= 1
  /\ Len(frames) < Len(tokens)

\* the search or the drawing of frame i fails
FrameFails ==
  \/ pc = "vid_scan" /\ fontSize > FontFloor
       /\ rebuildThrows((width - 2 * VidPadding) * 10, fontSize)
  \/ pc = "vid_render" /\ drawn < Len(DrawOrder(finalLines))
       /\ DrawThrows(DrawOrder(finalLines)[drawn + 1])

\* C16: when producing frame i fails after other frames were produced,
\* bratVidGenerator skips that frame and goes on with frame i + 1, keeping
\* the frames it has.
C16_FailedFrameSkipped ==
  [][(FrameFails /\ frames # <<>>) =>
       (pc' = "vid_frame" /\ i' = i + 1 /\ frames' = frames)]_vars

\* two plain words separated by one space
TwoWords(t) ==
  /\ Len(t) >= 3
  /\ t[1] \in Letters
  /\ t[Len(t)] \in Letters
  /\ Cardinality({k \in 1..Len(t) : t[k] = " "}) = 1
  /\ \A k \in 1..Len(t) : t[k] \in Letters \cup {" "}

\* the search of the last frame of a two-word text is over
TwoWordsLaidOut ==
  /\ pc = "vid_render"
  /\ TwoWords(text)
  /\ i = Len(tokens)

\* the sizes at which both words and the space fit on one line within the
\* available width and one line height fits within the available height
OneLineSizes ==
  {f \in ScanSizes : /\ measureText(text, "plain", f) <= VidAvailable
                     /\ LineHeightTenths * f <= VidBudget}

TypesOf(line) == [k \in 1..Len(line) |-> line[k].type]

\* C18 (as claimed): for a text of two plain words separated by one space the
\* final layout of bratVidGenerator is a single line of exactly 3 segments
\* (text, whitespace, text) at the largest scanned size at which both words
\* plus the space fit on one line within the available width and the line
\* height fits within the available height.
C18_TwoWordsOneLine ==
  (TwoWordsLaidOut /\ OneLineSizes # {}) =>
    /\ Len(finalLines) = 1
    /\ TypesOf(finalLines[1]) = <<"text", "whitespace", "text">>
    /\ fontSize = MaxOf(OneLineSizes)

\* C18 (amended): for a text of two plain words separated by one space the
\* final layout of bratVidGenerator is the layout of the largest scanned size
\* whose lines pass the height test; it is a single line exactly when both
\* words plus the space fit within the available width at that size, and has
\* two or more lines otherwise; a single line has exactly the 3 segments
\* text, whitespace, text.
C18_TwoWordsLargestPassing ==
  (TwoWordsLaidOut /\ Accepted) =>
    /\ VidPasses(fontSize)
    /\ \A f \in ScanSizes : f > fontSize => ~VidPasses(f)
    /\ finalLines = VidLines(text, fontSize, width)
    /\ Len(finalLines) >= 1
    /\ Len(finalLines) = 1 <=> measureText(text, "plain", fontSize) <= VidAvailable
    /\ Len(finalLines) = 1 =>
         TypesOf(finalLines[1]) = <<"text", "whitespace", "text">>

\* two short words accepted on one line of three segments
C18_Witness ==
  /\ TwoWordsLaidOut
  /\ Accepted
  /\ Len(finalLines) = 1
  /\ Len(finalLines[1]) = 3
  /\ SumWidths(finalLines[1]) <= VidAvailable

\* the x of the k-th segment drawn of a line in exact arithmetic, in tenths
\* of a pixel and as a numerator over ExactDen: margin, the widths before
\* and, in a justified line, k - 1 gaps of
\* (availableWidth - sum of widths) / (count - 1)
ExactDen(line) ==
  IF Len(NonWhitespace(line)) <= 1 THEN 1 ELSE Len(NonWhitespace(line)) - 1
ExactX(line, k, margin, availableWidth) ==
  IF Len(NonWhitespace(line)) <= 1
  THEN margin + SumWidths(SubSeq(line, 1, k - 1))
  ELSE (margin + SumWidths(SubSeq(NonWhitespace(line), 1, k - 1))) * ExactDen(line)
         + (k - 1) * (availableWidth - SumWidths(NonWhitespace(line)))

\* the double nearest to num / den tenths of a pixel, in pixels
PixelsOf(num, den) ==
  IF num >= 0 THEN Positive(DoubleQuotient(num, 10 * den))
  ELSE Negative(DoubleQuotient(0 - num, 10 * den))

\* 2^-30 px, less than a billionth of a pixel
Tolerance == [m |-> <<1>>, e |-> 0 - 30]

\* the doubles x and y are no more than Tolerance apart
Near(x, y) == DoubleLessEq(SignedPlus(x, Opposite(y)).abs, Tolerance)

\* positionX after the last segment drawn: its right edge
RightEdge(d) ==
  SignedPlus(d.draws[Len(d.draws)].x,
             Positive(HeldWidth(d.draws[Len(d.draws)].segment)))

\* the segments drawn for the line are those the claim names, the first of
\* them at x = margin: d is what was drawn for line
DrawnFromMargin(line, d, margin) ==
  /\ [k \in 1..Len(d.draws) |-> d.draws[k].segment] =
       (IF Len(NonWhitespace(line)) <= 1 THEN line ELSE NonWhitespace(line))
  /\ d.draws # <<>> => d.draws[1].x = Positive(DoubleOfTenths(margin))

\* a line of two or more non-whitespace segments
Justified(line) == Len(NonWhitespace(line)) > 1

\* the line was drawn as claimed, the right edge of a justified line being
\* exactly margin + availableWidth
DrawnExactly(line, d, margin, availableWidth) ==
  /\ DrawnFromMargin(line, d, margin)
  /\ Justified(line) =>
       RightEdge(d) = Positive(DoubleOfTenths(margin + availableWidth))

\* the line was drawn as claimed up to the rounding of the sums: every x is
\* within Tolerance of its exact value, and so is the right edge of a
\* justified line
DrawnAsClaimed(line, d, margin, availableWidth) ==
  /\ DrawnFromMargin(line, d, margin)
  /\ \A k \in 1..Len(d.draws) :
       Near(d.draws[k].x,
            PixelsOf(ExactX(line, k, margin, availableWidth), ExactDen(line)))
  /\ Justified(line) =>
       Near(RightEdge(d), Positive(DoubleOfTenths(margin + availableWidth)))

\* C19 (as claimed): a line with at most one non-whitespace segment is drawn
\* from x = margin; any other line has only its non-whitespace segments
\* drawn, the first at x = margin, with equal gaps of
\* (availableWidth - sum of their widths) / (count - 1), so that the right
\* edge of the last one is exactly at margin + availableWidth.
C19_LinesJustifiedExactly ==
  /\ \A k \in 1..Len(frames) : \A j \in 1..Len(frames[k].lines) :
       DrawnExactly(frames[k].lines[j], frames[k].drawn[j],
                    VidPadding * 10, VidAvailable)
  /\ \A k \in 1..Len(image) : \A j \in 1..Len(image[k].lines) :
       DrawnExactly(image[k].lines[j], image[k].drawn[j],
                    BratMargin * 10, BratAvailable)

\* C19 (amended): a line with at most one non-whitespace segment is drawn
\* from x = margin, each segment within a billionth of a pixel of where the
\* one before ends; any other line has only its non-whitespace segments
\* drawn, the first at x = margin, every one within a billionth of a pixel
\* of margin + the widths before it + as many gaps of
\* (availableWidth - sum of their widths) / (count - 1) as segments before
\* it, and the right edge of the last within a billionth of a pixel of
\* margin + availableWidth: the positions are sums of doubles.
C19_LinesJustified ==
  /\ \A k \in 1..Len(frames) : \A j \in 1..Len(frames[k].lines) :
       DrawnAsClaimed(frames[k].lines[j], frames[k].drawn[j],
                      VidPadding * 10, VidAvailable)
  /\ \A k \in 1..Len(image) : \A j \in 1..Len(image[k].lines) :
       DrawnAsClaimed(image[k].lines[j], image[k].drawn[j],
                      BratMargin * 10, BratAvailable)

\* frames with a justified line of two words set apart by a positive gap,
\* its right edge near margin + availableWidth and not on it, and with a
\* left-aligned line of one word
C19_Witness ==
  /\ \E k \in 1..Len(frames) : \E j \in 1..Len(frames[k].lines) :
       /\ Len(NonWhitespace(frames[k].lines[j])) = 2
       /\ Len(frames[k].drawn[j].draws) = 2
       /\ ~SpaceBetween(NonWhitespace(frames[k].lines[j]), VidAvailable).neg
       /\ SpaceBetween(NonWhitespace(frames[k].lines[j]), VidAvailable).abs.m # <<>>
       /\ RightEdge(frames[k].drawn[j]) #
            Positive(DoubleOfTenths(VidPadding * 10 + VidAvailable))
       /\ Near(RightEdge(frames[k].drawn[j]),
               Positive(DoubleOfTenths(VidPadding * 10 + VidAvailable)))
  /\ \E k \in 1..Len(frames) : \E j \in 1..Len(frames[k].lines) :
       /\ Len(NonWhitespace(frames[k].lines[j])) = 1
       /\ Len(frames[k].drawn[j].draws) >= 1
       /\ frames[k].drawn[j].draws[1].x = Positive(DoubleOfTenths(VidPadding * 10))

\* the markup spans tokenizerRegex can match
SpanKinds == {"bolditalic", "bold", "italic", "strikethrough", "monospace"}

\* the delimiter characters of the span t matched at p
DelimitersOf(chunk, p, t) ==
  IF t.kind \in SpanKinds
  THEN (t.end - p + 1) - Len(Inner(chunk, p, t.end, t.kind))
  ELSE 0

\* how many characters of chunk, from p on, are delimiters of a matched span
RECURSIVE MatchedDelimiters(_, _)
DelimitersFrom(chunk, p, t) ==
  DelimitersOf(chunk, p, t) + MatchedDelimiters(chunk, t.end + 1)

MatchedDelimiters(chunk, p) ==
  IF p > Len(chunk) THEN 0 ELSE DelimitersFrom(chunk, p, TokenAt(chunk, p))

\* the same over the chunks between the emoji of t, from lastIndex on
RECURSIVE TextDelimiters(_, _)
TextDelimitersAt(t, lastIndex, q) ==
  IF q = 0 THEN MatchedDelimiters(SubSeq(t, lastIndex, Len(t)), 1)
  ELSE MatchedDelimiters(SubSeq(t, lastIndex, q - 1), 1) + TextDelimiters(t, q + 1)

TextDelimiters(t, lastIndex) == TextDelimitersAt(t, lastIndex, NextEmoji(t, lastIndex))

\* C11: concatenating the content fields of the segments parseTextToSegments
\* returns, whitespace segments included, gives back the input string; here
\* for the inputs in which tokenizerRegex matches no markup span, so that no
\* delimiter is stripped from a matched span.
C11_RoundTripUnmatched ==
  (ParsedByCode /\ TextDelimiters(parsed[1].text, 1) = 0) =>
    ContentOf(parsed[1].segments) = parsed[1].text

\* C21: parseTextToSegments loses no text: every character of the input that
\* is not a delimiter of a matched markup span is in the content of a
\* returned segment, so the contents hold as many characters as the input has
\* outside those delimiters; a delimiter character that opens no span is in a
\* text segment.
C21_NoUnmatchedTextLost ==
  ParsedByCode =>
    Len(ContentOf(parsed[1].segments)) =
      Len(parsed[1].text) - TextDelimiters(parsed[1].text, 1)

\* the maximal runs of non-whitespace characters of s, in order
WordsOf(s) == SelectSeq(SplitRuns(s, 1), LAMBDA r : ~IsSpace(r[1]))

\* frame i of bratVidGenerator is about to be built from the first i tokens
AtPrefix == pc = "vid_frame" /\ i <= Len(tokens)

\* s has the character c at position k
CharAt(s, k, c) == k \in 1..Len(s) /\ s[k] = c

\* C22: the prefix string of the first i tokens has no space right before or
\* right after a line break and no two spaces in a row, and its runs of
\* non-whitespace characters are exactly the tokens of the prefix that are
\* not line breaks, in order.
C22_PrefixNormalized ==
  AtPrefix =>
    /\ \A k \in 1..Len(PrefixText(tokens, i)) :
         /\ CharAt(PrefixText(tokens, i), k, "\n") =>
              /\ ~CharAt(PrefixText(tokens, i), k - 1, " ")
              /\ ~CharAt(PrefixText(tokens, i), k + 1, " ")
         /\ CharAt(PrefixText(tokens, i), k, " ") =>
              ~CharAt(PrefixText(tokens, i), k + 1, " ")
    /\ WordsOf(PrefixText(tokens, i)) =
         SelectSeq(SubSeq(tokens, 1, i), LAMBDA tok : tok # <<"\n">>)

\* a prefix with a word, two line breaks and a word: the spaces that join()
\* put around the line breaks are gone
C22_Witness ==
  /\ AtPrefix
  /\ i >= 4
  /\ tokens[1] # <<"\n">>
  /\ tokens[2] = <<"\n">>
  /\ tokens[3] = <<"\n">>
  /\ tokens[4] # <<"\n">>
  /\ Len(PrefixText(tokens, i)) < Len(JoinSpace(tokens, i))
  /\ Len(WordsOf(PrefixText(tokens, i))) >= 2

\* the candidate sizes at which the prefix of frame i, laid out on its own,
\* passes the height test
VidPassingSizes == {f \in ScanSizes : VidPasses(f)}

\* the layout of frame i is the one its prefix gets on its own: that of the
\* largest size in P, the empty layout when P is empty
FrameLayoutIs(P) ==
  IF P = {}
  THEN fontSize = FontFloor /\ finalLines = <<>> /\ lineHeight = 0
  ELSE /\ fontSize = MaxOf(P)
       /\ finalLines = VidLines(PrefixText(tokens, i), MaxOf(P), width)
       /\ lineHeight = LineHeightTenths * MaxOf(P)

\* C23: the search of every frame of bratVidGenerator starts at size 200 with
\* no lines, and the layout it ends with (font size, line height and lines)
\* is the one computed from the prefix text, width and height alone, whatever
\* the earlier frames left behind, the font on the shared measuring context
\* included.  The layout is looked at when the search has ended, before the
\* first segment of the frame is drawn: drawing leaves it as it is.
C23_FrameLayoutFromPrefixOnly ==
  /\ (pc = "vid_scan" /\ probes = <<>>) =>
       (fontSize = FontCeiling /\ finalLines = <<>> /\ lineHeight = 0)
  /\ (pc = "vid_render" /\ drawn = 0) => FrameLayoutIs(VidPassingSizes)

\* a later frame laid out at a smaller size than an earlier one, with a
\* whitespace segment, on a context that earlier candidates left a font on
C23_Witness ==
  /\ pc = "vid_render"
  /\ drawn = 0
  /\ i >= 2
  /\ Accepted
  /\ \E k \in 1..Len(frames) : frames[k].fontSize > fontSize
  /\ \E j \in 1..Len(finalLines) : HasType(finalLines[j], "whitespace")
  /\ ctxFont = Font("plain", fontSize)

\* a call is running or suspended: it was made and has neither returned nor
\* thrown
Busy ==
  \/ pc \in CallPcs \cup {"pack", "parsed"}
  \/ waiting # {}

\* a step of a call that is running, or the event loop going on with a call
\* that is suspended or with a new one
Proceeds == Busy /\ vars' # vars

\* a call that was made keeps running, the event loop resuming it until it
\* returns or throws: weak fairness of the steps of the running call, with
\* the enabling condition of those steps written out as Busy
LiveSpec == Spec /\ ([]<>~Busy \/ []<><<Proceeds>>_vars)

\* the candidate sizes probed so far are 200, 198, ... without a repeat, at
\* most one for each of the 95 sizes above the floor
ScanBounded ==
  /\ Len(probes) <= (FontCeiling - FontFloor) \div FontStep
  /\ \A k \in 1..Len(probes) : probes[k] = FontCeiling - FontStep * (k - 1)
  /\ pc \in {"brat_scan", "vid_scan"} =>
       fontSize = FontCeiling - FontStep * Len(probes)

\* every match of the tokenizer loop consumes at least one character and at
\* most the rest of the text, and the segments pushed are no more than the
\* characters of the text
TokenizerAdvances ==
  (pc = "parsed") =>
    /\ \A p \in 1..Len(parsed[1].text) :
         /\ TokenAt(parsed[1].text, p).end >= p
         /\ TokenAt(parsed[1].text, p).end <= Len(parsed[1].text)
    /\ Len(parsed[1].segments) <= Len(parsed[1].text)

\* the hard split of a segment makes no more pieces than it has characters
SplitBounded ==
  \A k \in 1..Len(segments) :
    (pc \in {"pack", "packed"} /\ NeedsSplit(segments[k], maxWidth)) =>
      Len(HardSplit(segments[k].content, getFontForSegment(segments[k].type),
                    packFontSize, maxWidth)) <= Len(segments[k].content)

InSearch == pc \in {"brat_scan", "vid_scan"}

\* C24: every fit search terminates: the scans of bratGenerator and
\* bratVidGenerator probe 200, 198, ... strictly decreasing by 2, each size at
\* most once and at most 95 of them, and a scan that has started ends; the
\* tokenizer loop of parseTextToSegments and the character loop of the hard
\* split end after at most as many rounds as the input has characters, and a
\* running call of rebuildLinesFromSegments returns.
C24_SearchTerminates ==
  /\ [](ScanBounded /\ TokenizerAdvances /\ SplitBounded)
  /\ InSearch ~> ~InSearch
  /\ (pc = "pack") ~> (pc = "packed")

\* a scan that went through all 95 candidate sizes and ended
C24_Witness ==
  /\ pc \in {"brat_final", "vid_render"}
  /\ Len(probes) = (FontCeiling - FontFloor) \div FontStep
  /\ probes[Len(probes)] = FontFloor + FontStep
  /\ fontSize = FontFloor

\* every segment of every line has content and a width that is not negative
SegmentsSound(lines) ==
  \A j \in 1..Len(lines) : \A k \in 1..Len(lines[j]) :
    /\ Len(lines[j][k].content) > 0
    /\ lines[j][k].width >= 0

\* C25: every segment of every line that rebuildLinesFromSegments builds from
\* the output of parseTextToSegments, the pieces of a hard-split word
\* included, has non-empty content and a width >= 0: in the lines of a direct
\* call, pushed or still open, and in the lines of every candidate layout
\* that bratGenerator and bratVidGenerator keep.
C25_SegmentsNonEmpty ==
  /\ SegmentsSound(pack.lines)
  /\ SegmentsSound(<<pack.currentLine>>)
  /\ SegmentsSound(packed)
  /\ SegmentsSound(finalLines)

\* lines returned with the pieces of a word hard-split in three or more
C25_Witness ==
  /\ pc = "packed"
  /\ Len(segments) = 1
  /\ NeedsSplit(segments[1], maxWidth)
  /\ Len(packed) >= 3
  /\ ContentOf(Flatten(packed)) = segments[1].content

\* the positions of the empty lines of a layout
EmptyAt(lines) == {j \in 1..Len(lines) : lines[j] = <<>>}

\* where the empty source lines of t belong in its layout: each right after
\* the lines of the source lines before it
EmptyExpected(t, f, maxW, recalc) ==
  {Len(WrapLines(SubSeq(SplitLines(t), 1, k - 1), f, maxW, recalc)) + 1 :
     k \in {m \in 1..Len(SplitLines(t)) : SplitLines(t)[m] = <<>>}}

\* the empty lines of a layout of t are those of its empty source lines
EmptyLinesMatch(lines, t, f, maxW, recalc) ==
  /\ EmptyAt(lines) = EmptyExpected(t, f, maxW, recalc)
  /\ Cardinality(EmptyAt(lines)) =
       Cardinality({m \in 1..Len(SplitLines(t)) : SplitLines(t)[m] = <<>>})

\* C26: in every layout that bratGenerator and bratVidGenerator build and
\* keep, every empty source line gives exactly one empty line at its position
\* and there is no other empty line; rebuildLinesFromSegments never returns
\* or holds an empty line.
C26_EmptyLinesAreSourceLines ==
  /\ (pc = "brat_final" /\ Accepted) =>
       EmptyLinesMatch(finalLines, text, fontSize, BratAvailable, FALSE)
  /\ (pc \in {"brat_scan", "brat_final"} /\ lastKnownGoodSolution # <<>>) =>
       EmptyLinesMatch(lastKnownGoodSolution[1].lines, text,
                       lastKnownGoodSolution[1].fontSize, BratAvailable, FALSE)
  /\ (pc = "vid_render" /\ Accepted) =>
       EmptyLinesMatch(finalLines, PrefixText(tokens, i), fontSize, VidAvailable, TRUE)
  /\ EmptyAt(pack.lines) = {}
  /\ EmptyAt(packed) = {}

\* an accepted layout with two empty lines after a line of text, one for each
\* of the two empty source lines that trailing line breaks make
C26_Witness ==
  /\ pc = "brat_final"
  /\ Accepted
  /\ Len(finalLines) = 3
  /\ EmptyAt(finalLines) = {2, 3}
  /\ SplitLines(text)[2] = <<>>
  /\ SplitLines(text)[3] = <<>>

\* the styles a segment of a kind is measured under: its own, and for a
\* whitespace run also the style of the span around it (see C20)
StylesOf(type) ==
  IF type = "whitespace" THEN {"plain", "bold", "italic", "bold italic", "monospace"}
  ELSE {getFontForSegment(type)}

\* the width of the segment is the one its content measures at size f
WidthAt(segment, f) ==
  IF segment.type = "emoji" THEN segment.width = EmojiTenths * f
  ELSE \E style \in StylesOf(segment.type) :
         segment.width = measureText(segment.content, style, f)

\* C27: in the layout bratGenerator hands to rendering, the width of every
\* segment is the width of its content under the style of its kind at the
\* final font size (1.2 times the final font size for an emoji), also when
\* the single-word branch has set the final font size.
C27_WidthsAtFinalSize ==
  pc = "brat_render" =>
    \A j \in 1..Len(finalLines) : \A k \in 1..Len(finalLines[j]) :
      WidthAt(finalLines[j][k], finalFontSize)

\* the same for the layouts that did not go through the single-word branch
C27_WidthsAtScannedSize ==
  (pc = "brat_render" /\ ~IsSingleWord(finalLines)) =>
    \A j \in 1..Len(finalLines) : \A k \in 1..Len(finalLines[j]) :
      WidthAt(finalLines[j][k], finalFontSize)

\* a text of plain words, spaces and line breaks only
IsPlainText(t) == \A k \in 1..Len(t) : t[k] \in Letters \cup {" ", "\n"}

\* C28: for a text of plain words and line breaks only, the font sizes of the
\* frames of bratVidGenerator never increase from one frame to the next.
C28_FrameSizesNonIncreasing ==
  (tokens # <<>> /\ IsPlainText(text)) =>
    \A k \in 1..(Len(frames) - 1) : frames[k + 1].fontSize <= frames[k].fontSize

\* frames returned for a plain text, the last at a smaller size than the first
C28_Witness ==
  /\ pc = "done"
  /\ IsPlainText(text)
  /\ Len(frames) >= 3
  /\ frames[Len(frames)].fontSize < frames[1].fontSize
  /\ frames[Len(frames)].fontSize > FontFloor

\* the segments the packer holds, in order: those of the lines pushed, then
\* those of the open line
PackFlat(st) == Flatten(st.lines) \o st.currentLine

\* the segments a step has added to the ones held before
AddedByStep == SubSeq(PackFlat(pack'), Len(PackFlat(pack)) + 1, Len(PackFlat(pack')))

\* what the step on segment may add: nothing for whitespace met on an empty
\* line, the pieces of a hard-split word, the segment itself otherwise
AddsOnly(added, segment, lineLen) ==
  IF segment.type = "whitespace" /\ lineLen = 0 THEN added = <<>>
  ELSE IF Oversized(segment)
  THEN /\ \A k \in 1..Len(added) : added[k].type = segment.type
       /\ ContentOf(added) = segment.content
  ELSE added = <<segment>>

\* C29: rebuildLinesFromSegments neither loses, duplicates nor reorders
\* content: every step keeps the segments held so far in their order and adds
\* after them the segment it was given, or nothing for a whitespace segment
\* met on an empty line, or the pieces of a hard-split word, whose contents
\* concatenate to the word; the lines returned hold the segments held.
C29_PackerKeepsContent ==
  [][/\ IsPackStep =>
          /\ SubSeq(PackFlat(pack'), 1, Len(PackFlat(pack))) = PackFlat(pack)
          /\ AddsOnly(AddedByStep, segments[idx], Len(pack.currentLine))
     /\ (pc = "pack" /\ pc' = "packed") => Flatten(packed') = PackFlat(pack)]_vars

\* lines returned with a whitespace segment dropped, a word hard-split and
\* the content of every other segment in place
C29_Witness ==
  /\ pc = "packed"
  /\ \E k \in 1..Len(segments) : Oversized(segments[k])
  /\ Len(NonWhitespace(Flatten(packed))) > Len(NonWhitespace(segments))
  /\ Len(Flatten(packed)) - Len(NonWhitespace(Flatten(packed)))
       < Len(segments) - Len(NonWhitespace(segments))
  /\ ContentOf(NonWhitespace(Flatten(packed))) = ContentOf(NonWhitespace(segments))

\* C30: the font size bratGenerator renders a non-blank text with is an
\* integer from the floor 10 to the ceiling 200, also when the single-word
\* branch sets it and when no candidate was accepted.
C30_FontSizeInRange ==
  pc = "brat_render" => finalFontSize \in FontFloor..FontCeiling

\* the same for the layouts that did not go through the single-word branch
C30_ScannedSizeInRange ==
  (pc = "brat_render" /\ ~IsSingleWord(finalLines)) =>
    finalFontSize \in FontFloor..FontCeiling

\* the same for the layouts of an accepted candidate or of the fallback
C30_KeptSizeInRange ==
  (pc = "brat_render" /\ ~IsSingleWord(finalLines) /\ finalLines # <<>>) =>
    finalFontSize \in (FontFloor + FontStep)..FontCeiling
====
